---- MODULE Spec2Model ----
(***************************************************************************)
(* Model of the retrieval-augmented chat engine of SLJchatbot:             *)
(*   - ConversationMemory (lib/huggingface, src/unnamed/part_013)          *)
(*   - the generation entry points and the streaming generator (part_013)  *)
(*   - the JSON document store and its search (src/unnamed/part_011)       *)
(* Text is a sequence of one-character strings, so that length, slicing,   *)
(* splitting and concatenation are computed as the code computes them.     *)
(***************************************************************************)
EXTENDS Integers, Sequences, FiniteSets, TLC

VARIABLES
    maxTurns,      \* ConversationMemory.maxTurns (constructor argument)
    maxTokens,     \* ConversationMemory.maxTokens (constructor argument)
    history,       \* ConversationMemory.history
    clock,         \* logical time: the value new Date() yields next
    added,         \* log of the turns passed to addTurn since construction / clear()
    lastContext,   \* value returned by the latest getContext() call
    lastDocContext, \* value returned by the latest getRecentDocumentContext()
    lastOp,        \* name of the latest ConversationMemory method that returned
    gen,           \* the generation call in flight (or the last one finished)
    fileExists,    \* existsSync(DOCUMENTS_DB_PATH)
    file,          \* the parsed content of uploads/documents.json
    procs,         \* the store operations in flight, one per request slot
    nextId,        \* the id the next upload gets
    savedIds,      \* ids whose saveDocument call has returned
    deletedIds     \* ids whose deleteDocument call has returned true and
                   \* that no saveDocument call has written since

memVars == <<maxTurns, maxTokens, history, clock, added, lastContext,
            lastDocContext, lastOp>>
storeVars == <<fileExists, file, procs, nextId, savedIds, deletedIds>>
vars == <<memVars, gen, storeVars>>

(***************************************************************************)
(* Bounds of the model.                                                    *)
(***************************************************************************)
MaxTurnsBound == 3     \* maxTurns is drawn from 0..MaxTurnsBound
MaxTokensBound == 6    \* maxTokens is drawn from 0..MaxTokensBound
MaxAdds == 5           \* addTurn calls per behaviour
NumProcs == 2          \* store operations that can be in flight together
MaxDocs == 2           \* uploads per behaviour
MaxRecords == 3        \* a reprocess starts only below this many records

(***************************************************************************)
(* Helpers on numbers and text.                                            *)
(***************************************************************************)
Min(a, b) == IF a < b THEN a ELSE b
Max(a, b) == IF a > b THEN a ELSE b

\* Array.prototype.slice(start) with JavaScript's treatment of a negative
\* start (counted from the end) and of out-of-range values. -0 is 0.
JsSliceFrom(s, start) ==
    LET n == Len(s)
        b == IF start < 0 THEN Max(n + start, 0) ELSE Min(start, n)
    IN  SubSeq(s, b + 1, n)

\* Array.prototype.slice(start, end) for 0 <= start.
\* A slice that keeps the whole array.
JsSlice_Whole(s, start, end) == s

JsSlice(s, start, end) ==
    LET n == Len(s)
        b == Min(start, n)
        e == IF end < 0 THEN Max(n + end, 0) ELSE Min(end, n)
    IN  SubSeq(s, b + 1, e)

\* The value of an optional string argument that was not passed.
Undefined == <<"undefined">>
\* JavaScript truthiness of an optional string: neither undefined nor ''.
Truthy(s) == s # Undefined /\ s # <<>>

\* Characters the code tests for, named by code point.
Kuten == "U+3002"          \* ideographic full stop
ZenkakuExcl == "U+FF01"    \* full-width exclamation mark
ZenkakuQuest == "U+FF1F"   \* full-width question mark
SentenceEnd == {Kuten, ZenkakuExcl, ZenkakuQuest}
Whitespace == {" ", "\n", "\t"}

\* String.prototype.trim
RECURSIVE TrimStart(_)
TrimStart(s) ==
    IF s # <<>> /\ Head(s) \in Whitespace THEN TrimStart(Tail(s)) ELSE s
RECURSIVE TrimEnd(_)
TrimEnd(s) ==
    IF s # <<>> /\ s[Len(s)] \in Whitespace
    THEN TrimEnd(SubSeq(s, 1, Len(s) - 1)) ELSE s
Trim(s) == TrimEnd(TrimStart(s))

UpperLetters ==
    <<"A", "B", "C", "D", "E", "F", "G", "H", "I", "J", "K", "L",
      "M", "N", "O", "P", "Q", "R", "S", "T", "U", "V", "W", "X",
      "Y", "Z">>
LowerLetters ==
    <<"a", "b", "c", "d", "e", "f", "g", "h", "i", "j", "k", "l",
      "m", "n", "o", "p", "q", "r", "s", "t", "u", "v", "w", "x",
      "y", "z">>
Digits ==
    {"0", "1", "2", "3", "4", "5", "6", "7", "8", "9"}

\* String.prototype.toLowerCase (ASCII letters; the other characters of the
\* model have no upper case).
LowerChar(c) ==
    IF \E i \in 1..26 : UpperLetters[i] = c
    THEN LowerLetters[CHOOSE i \in 1..26 : UpperLetters[i] = c]
    ELSE c
ToLowerCase(s) == [i \in 1..Len(s) |-> LowerChar(s[i])]

\* String.prototype.includes
Includes(text, sub) ==
    \E i \in 1..(Len(text) - Len(sub) + 1) :
        SubSeq(text, i, i + Len(sub) - 1) = sub

\* Array.prototype.join
RECURSIVE Join(_, _)
Join(pieces, sep) ==
    IF pieces = <<>> THEN <<>>
    ELSE IF Len(pieces) = 1 THEN pieces[1]
    ELSE pieces[1] \o sep \o Join(Tail(pieces), sep)

\* split(/[。！？]/) when keep is FALSE and split(/([。！？])/g) when keep
\* is TRUE (a capturing group puts each separator into the result).
RECURSIVE SplitFrom(_, _, _, _)
SplitFrom(s, keep, cur, out) ==
    IF s = <<>> THEN Append(out, cur)
    ELSE IF Head(s) \in SentenceEnd
         THEN SplitFrom(Tail(s), keep, <<>>,
                        IF keep THEN Append(Append(out, cur), <<Head(s)>>)
                        ELSE Append(out, cur))
         ELSE SplitFrom(Tail(s), keep, Append(cur, Head(s)), out)
SplitSentences(s) == SplitFrom(s, FALSE, <<>>, <<>>)
SplitKeepingEnds(s) == SplitFrom(s, TRUE, <<>>, <<>>)

Roles == {"user", "assistant"}
\* The (role, content, documentContext) arguments addTurn is called with:
\* both roles, contents of length 0, 1 and 5, and a documentContext that is
\* not passed, empty, or one of two non-empty blobs.
TurnInputs ==
    { <<"user", <<>>, Undefined>>,
      <<"user", <<"a">>, <<"D">> >>,
      <<"assistant", <<"a", "b", "c", "d", "e">>, <<>> >>,
      <<"assistant", <<"a">>, <<"E">> >>,
      <<"user", <<"a", "b", "c", "d", "e">>, Undefined>> }

(***************************************************************************)
(* ConversationMemory                                                      *)
(***************************************************************************)
Turn(role, content, timestamp, documentContext) ==
    [role |-> role, content |-> content, timestamp |-> timestamp,
     documentContext |-> documentContext]

\* addTurn that keeps the oldest turns, slice(0, maxTurns), when over the cap.
AddTurnResult_KeepOldest(h, mt, turn) ==
    LET pushed == Append(h, turn)
    IN  IF Len(pushed) > mt THEN JsSlice(pushed, 0, mt) ELSE pushed

\* addTurn: push, then keep only the recent turns with slice(-maxTurns).
AddTurnResult(h, mt, turn) ==
    LET pushed == Append(h, turn)
    IN  IF Len(pushed) > mt THEN JsSliceFrom(pushed, 0 - mt) ELSE pushed

HumanPrefix == <<"H", "u", "m", "a", "n", ":", " ">>
AssistantPrefix == <<"A", "s", "s", "i", "s", "t", "a", "n", "t", ":", " ">>

\* `${turn.role === 'user' ? 'Human' : 'Assistant'}: ${turn.content}\n`
TurnText(turn) ==
    (IF turn.role = "user" THEN HumanPrefix ELSE AssistantPrefix)
        \o turn.content \o <<"\n">>

\* A getContext loop that passes over a turn that does not fit (continue)
\* instead of stopping at it (break).
RECURSIVE GetContextFrom_SkipTooLong(_, _, _, _, _)
GetContextFrom_SkipTooLong(h, mtok, i, context, chars4) ==
    IF i < 1 THEN context
    ELSE LET turnText == TurnText(h[i])
         IN  IF chars4 + Len(turnText) > 4 * mtok
             THEN GetContextFrom_SkipTooLong(h, mtok, i - 1, context, chars4)
             ELSE GetContextFrom_SkipTooLong(h, mtok, i - 1,
                      turnText \o context, chars4 + Len(turnText))

\* The loop of getContext from index i (1-based) downwards. chars4 is
\* 4 * tokenCount: turnText.length / 4 is exact in binary floating point, so
\* tokenCount + turnTokens > maxTokens  <=>  chars + length > 4 * maxTokens.
RECURSIVE GetContextFrom(_, _, _, _, _)
GetContextFrom(h, mtok, i, context, chars4) ==
    IF i < 1 THEN context
    ELSE LET turnText == TurnText(h[i])
         IN  IF chars4 + Len(turnText) > 4 * mtok
             THEN context
             ELSE GetContextFrom(h, mtok, i - 1, turnText \o context,
                                 chars4 + Len(turnText))

\* getContext that tests the running estimate before adding the turn that
\* may push it over the budget.
RECURSIVE GetContextFrom_CheckBefore(_, _, _, _, _)
GetContextFrom_CheckBefore(h, mtok, i, context, chars4) ==
    IF i < 1 \/ chars4 > 4 * mtok THEN context
    ELSE GetContextFrom_CheckBefore(h, mtok, i - 1, TurnText(h[i]) \o context,
                                    chars4 + Len(TurnText(h[i])))
GetContext_CheckBefore(h, mtok) ==
    GetContextFrom_CheckBefore(h, mtok, Len(h), <<>>, 0)

GetContext(h, mtok) == GetContextFrom(h, mtok, Len(h), <<>>, 0)

\* getRecentDocumentContext that looks through the whole history.
GetRecentDocumentContext_WholeHistory(h) ==
    LET documentContexts == SelectSeq(h, LAMBDA t : Truthy(t.documentContext))
    IN  IF Len(documentContexts) > 0
        THEN documentContexts[Len(documentContexts)].documentContext
        ELSE <<>>

\* getRecentDocumentContext: the last truthy documentContext of slice(-3).
GetRecentDocumentContext(h) ==
    LET recentTurns == JsSliceFrom(h, 0 - 3)
        documentContexts == SelectSeq(recentTurns,
                                LAMBDA t : Truthy(t.documentContext))
    IN  IF Len(documentContexts) > 0
        THEN documentContexts[Len(documentContexts)].documentContext
        ELSE <<>>

(***************************************************************************)
(* Generation: post-processing and the fallback generators.                *)
(* A fixed literal of the source that no length test or split is applied   *)
(* to is written as one token "[...]" naming it; text that the code        *)
(* measures, trims or splits is written out character by character.        *)
(***************************************************************************)
\* generateContextAwareResponse: 'oshiete', 'setsumei'
ExplainKeywords ==
    { <<"U+6559", "U+3048", "U+3066">>,
      <<"U+8AAC", "U+660E">> }
\* generateContextAwareResponse: 'houhou', 'yarikata'
HowToKeywords ==
    { <<"U+65B9", "U+6CD5">>,
      <<"U+3084", "U+308A", "U+65B9">> }
\* generateIntelligentFallback: 'gureedo', 'grade', 'slg'
GradeKeywords ==
    { <<"U+30B0", "U+30EC", "U+30FC", "U+30C9">>,
      <<"g", "r", "a", "d", "e">>,
      <<"s", "l", "g">> }
\* generateIntelligentFallback: 'hyouka', 'evaluation', 'medaru shiito'
EvaluationKeywords ==
    { <<"U+8A55", "U+4FA1">>,
      <<"e", "v", "a", "l", "u", "a", "t", "i", "o", "n">>,
      <<"U+30E1", "U+30C0", "U+30EB", "U+30B7", "U+30FC", "U+30C8">> }
\* generateIntelligentFallback: 'misshon', 'mission', 'tanka up'
MissionKeywords ==
    { <<"U+30DF", "U+30C3", "U+30B7", "U+30E7", "U+30F3">>,
      <<"m", "i", "s", "s", "i", "o", "n">>,
      <<"U+5358", "U+4FA1", "u", "p">> }
\* generateIntelligentFallback: 'shoukaku', 'shoushin', 'promotion'
PromotionKeywords ==
    { <<"U+6607", "U+683C">>,
      <<"U+6607", "U+9032">>,
      <<"p", "r", "o", "m", "o", "t", "i", "o", "n">> }
\* generateIntelligentFallback: 'shikaku', 'sukiru', 'skill'
SkillKeywords ==
    { <<"U+8CC7", "U+683C">>,
      <<"U+30B9", "U+30AD", "U+30EB">>,
      <<"s", "k", "i", "l", "l">> }
\* generateSimpleDocumentResponse: 'hyouka', 'jinji'
HrKeywords ==
    { <<"U+8A55", "U+4FA1">>,
      <<"U+4EBA", "U+4E8B">> }
\* generateSimple(Document)Response: 'medaru shiito'
MedalSheetKeywords ==
    { <<"U+30E1", "U+30C0", "U+30EB", "U+30B7", "U+30FC", "U+30C8">> }
\* generateSimpleDocumentResponse: 'gureedo', 'shoukaku'
GradePromotionKeywords ==
    { <<"U+30B0", "U+30EC", "U+30FC", "U+30C9">>,
      <<"U+6607", "U+683C">> }
\* generateSimpleDocumentResponse: 'fukuri kousei', 'seido'
WelfareKeywords ==
    { <<"U+798F", "U+5229", "U+539A", "U+751F">>,
      <<"U+5236", "U+5EA6">> }
\* generateSimpleResponse: 'konnichiwa', 'hajimemashite', 'hello'
GreetingKeywords ==
    { <<"U+3053", "U+3093", "U+306B", "U+3061", "U+306F">>,
      <<"U+306F", "U+3058", "U+3081", "U+307E", "U+3057", "U+3066">>,
      <<"h", "e", "l", "l", "o">> }
\* generateSimpleResponse: 'arigatou', 'thank'
ThanksKeywords ==
    { <<"U+3042", "U+308A", "U+304C", "U+3068", "U+3046">>,
      <<"t", "h", "a", "n", "k">> }
\* generateSimpleResponse: 'tasukete', 'help', 'sapooto'
HelpKeywords ==
    { <<"U+52A9", "U+3051", "U+3066">>,
      <<"h", "e", "l", "p">>,
      <<"U+30B5", "U+30DD", "U+30FC", "U+30C8">> }
\* generateSimpleResponse: 'hyouka', 'jinji', 'seido'
HrSystemKeywords ==
    { <<"U+8A55", "U+4FA1">>,
      <<"U+4EBA", "U+4E8B">>,
      <<"U+5236", "U+5EA6">> }

IncludesAny(text, keywords) == \E k \in keywords : Includes(text, k)

\* generateContextAwareResponse
GenerateContextAwareResponse(question, documentContext) ==
    LET questionLower == ToLowerCase(question)
    IN  IF IncludesAny(questionLower, ExplainKeywords)
        THEN IF Truthy(documentContext)
             THEN <<"[explain-from-documents:">> \o question \o <<"]">>
             ELSE <<"[explain-please-upload:">> \o question \o <<"]">>
        ELSE IF IncludesAny(questionLower, HowToKeywords)
        THEN <<"[how-to:">> \o question \o <<"]">>
        ELSE <<"[understood:">> \o question \o <<"]">>

ShortFragmentLen == 10
MinEnhancedLen == 20
DocEmoji == "U+1F4C4"

\* enhanceResponseQuality
EnhanceResponseQuality(response, originalQuestion, documentContext) ==
    LET sentences == SplitSentences(response)
        enhanced1 ==
            IF Len(sentences) > 1
               /\ Len(Trim(sentences[Len(sentences)])) < ShortFragmentLen
            THEN Join(SubSeq(sentences, 1, Len(sentences) - 1), <<Kuten>>)
                     \o <<Kuten>>
            ELSE response
        enhanced2 ==
            IF Len(enhanced1) < MinEnhancedLen
            THEN GenerateContextAwareResponse(originalQuestion, documentContext)
            ELSE enhanced1
    IN  IF Truthy(documentContext) /\ ~Includes(enhanced2, <<DocEmoji>>)
        THEN <<DocEmoji, "[document-based-answer]">> \o enhanced2
        ELSE enhanced2

\* performAdvancedContentAnalysis
PerformAdvancedContentAnalysis(content) ==
    IF content = <<>> \/ Trim(content) = <<>>
    THEN <<"[content-unreadable]">>
    ELSE <<"[document-statistics]">>

\* generateIntelligentFallback that resolves with the topic section alone,
\* which is '' when no topic keyword matched.
GenerateIntelligentFallback_TopicOnly(question, documentContext) ==
    IF IncludesAny(ToLowerCase(question), GradeKeywords)
    THEN <<"[grade-info]">> ELSE <<>>

\* generateIntelligentFallback: the promise it returns always resolves. The
\* fixed closing sections of the template hold three sentences, each ended
\* by an ideographic full stop.
GenerateIntelligentFallback(question, documentContext) ==
    LET structuredAnalysis == PerformAdvancedContentAnalysis(documentContext)
        questionLower == ToLowerCase(question)
        topic ==
            IF IncludesAny(questionLower, GradeKeywords) THEN <<"[grade-info]">>
            ELSE IF IncludesAny(questionLower, EvaluationKeywords)
            THEN <<"[evaluation-info]">>
            ELSE IF IncludesAny(questionLower, MissionKeywords)
            THEN <<"[mission-info]">>
            ELSE IF IncludesAny(questionLower, PromotionKeywords)
            THEN <<"[promotion-info]">>
            ELSE IF IncludesAny(questionLower, SkillKeywords)
            THEN <<"[skill-info]">>
            ELSE <<>>
        intelligentResponse ==
            IF topic = <<>> THEN <<"[comprehensive-analysis]">> ELSE topic
    IN  <<DocEmoji, "[detailed-analysis:question:">> \o question
            \o <<"[sources:uploaded]">> \o intelligentResponse
            \o <<"[structured-analysis:">> \o structuredAnalysis
            \o <<"[additional-info:based-on-documents]", Kuten,
                 "[comprehensive-information]", Kuten,
                 "[features:support:ask-for-details]", Kuten>>

\* generateSimpleDocumentResponse
GenerateSimpleDocumentResponse(message, documentContext) ==
    LET messageLC == ToLowerCase(message)
    IN  IF IncludesAny(messageLC, HrKeywords) THEN <<"[evaluation-answer]">>
        ELSE IF IncludesAny(messageLC, MedalSheetKeywords)
        THEN <<"[medal-sheet-answer]">>
        ELSE IF IncludesAny(messageLC, GradePromotionKeywords)
        THEN <<"[grade-answer]">>
        ELSE IF IncludesAny(messageLC, WelfareKeywords)
        THEN <<"[welfare-answer]">>
        ELSE <<"[about:">> \o message \o <<"]">>

\* generateSimpleResponse
GenerateSimpleResponse(message) ==
    LET messageLC == ToLowerCase(message)
    IN  IF IncludesAny(messageLC, GreetingKeywords) THEN <<"[greeting]">>
        ELSE IF IncludesAny(messageLC, ThanksKeywords) THEN <<"[welcome]">>
        ELSE IF IncludesAny(messageLC, HelpKeywords) THEN <<"[help]">>
        ELSE IF IncludesAny(messageLC, MedalSheetKeywords)
        THEN <<"[medal-sheet-upload]">>
        ELSE IF IncludesAny(messageLC, HrSystemKeywords)
        THEN <<"[evaluation-upload]">>
        ELSE <<"[understood-upload:">> \o message \o <<"]">>

\* The replace(/^#+\s*/gm, '') step of makeResponseNatural at the start of
\* the text: the markdown-header marks and the whitespace after them.
RECURSIVE StripHashes(_)
StripHashes(s) == IF s # <<>> /\ Head(s) = "#" THEN StripHashes(Tail(s)) ELSE s
StripMarkdownHeader(s) ==
    IF s # <<>> /\ Head(s) = "#" THEN TrimStart(StripHashes(s)) ELSE s

VerboseLen == 400

\* makeResponseNatural. Of its replace() steps the model keeps the ones that
\* can match the texts the completion service returns here: the leading
\* markdown header, the trim, the three-sentence cut and the short-answer
\* substitution; the other patterns match none of the model's characters.
MakeResponseNatural(response, userMessage, documentContext) ==
    LET natural1 == Trim(StripMarkdownHeader(response))
        sentences == SplitSentences(natural1)
        natural ==
            IF Len(natural1) > VerboseLen
            THEN Join(SubSeq(sentences, 1, Min(3, Len(sentences))), <<Kuten>>)
                     \o <<Kuten>>
            ELSE natural1
    IN  IF (Len(natural) < MinEnhancedLen \/ Trim(natural) = <<>>)
           /\ Truthy(documentContext)
        THEN IF Includes(userMessage, <<"U+8A55", "U+4FA1">>)
             THEN <<"[evaluation-which-part]">>
             ELSE <<"[checked:">> \o userMessage \o <<"]">>
        ELSE natural

\* A request slot with no store operation.
IdleProc ==
    [op |-> "idle", pc |-> "idle", phase |-> "none", id |-> 0,
     doc |-> <<>>, query |-> <<>>, tags |-> <<>>, limit |-> 0, offset |-> 0,
     buf |-> <<>>, result |-> <<>>, raised |-> FALSE]

Procs == 1..NumProcs

\* The store before anything was uploaded: uploads/documents.json is absent.
StoreNotCreated ==
    /\ fileExists = FALSE
    /\ file = <<>>
    /\ procs = [p \in Procs |-> IdleProc]
    /\ nextId = 1
    /\ savedIds = {}
    /\ deletedIds = {}

\* A chat POST request and what it has done so far: the response status
\* and error (0 and "none" while unanswered) and the number of document
\* searches, completion-service calls and chat-history writes it started.
IdleHttp ==
    [route |-> "none", session |-> FALSE, development |-> FALSE,
     openai |-> FALSE, body |-> <<>>, status |-> 0, error |-> "none",
     searches |-> 0, completions |-> 0, historyWrites |-> 0]

\* The record of a generation call; no call has been made yet.
IdleGen ==
    [kind |-> "none", pc |-> "idle", message |-> <<>>,
     documentContext |-> Undefined, attempt |-> 0, threw |-> 0,
     returned |-> 0, fullResponse |-> <<>>, chunks |-> <<>>, acc |-> <<>>,
     frames |-> <<>>, result |-> <<>>, raised |-> FALSE, addedBefore |-> 0,
     out |-> <<>>, closed |-> FALSE, answeredBy |-> "none",
     http |-> IdleHttp]

\* What the route handlers put on the response stream with
\* controller.enqueue: `data: {content, ...}`, `data: [DONE]` and
\* `data: {error, ...}`.
ContentFrame(text) == [type |-> "content", content |-> text]
DoneFrame == [type |-> "done", content |-> <<>>]
ErrorFrame == [type |-> "error", content |-> <<>>]

InitMemory ==
    /\ maxTurns \in 0..MaxTurnsBound
    /\ maxTokens \in 0..MaxTokensBound
    /\ history = <<>>
    /\ clock = 0
    /\ added = <<>>
    /\ lastContext = <<>>
    /\ lastDocContext = <<>>
    /\ lastOp = "constructor"
    /\ gen = IdleGen
    /\ StoreNotCreated

AddTurn(role, content, documentContext) ==
    /\ clock < MaxAdds
    /\ LET turn == Turn(role, content, clock, documentContext)
       IN  /\ history' = AddTurnResult(history, maxTurns, turn)
           /\ added' = Append(added, turn)
    /\ clock' = clock + 1
    /\ lastOp' = "addTurn"
    /\ UNCHANGED <<maxTurns, maxTokens, lastContext, lastDocContext, gen,
                   storeVars>>

Clear ==
    /\ history' = <<>>
    /\ added' = <<>>
    /\ lastOp' = "clear"
    /\ UNCHANGED <<maxTurns, maxTokens, clock, lastContext, lastDocContext,
                   gen, storeVars>>

GetContextCall ==
    /\ lastContext' = GetContext(history, maxTokens)
    /\ lastOp' = "getContext"
    /\ UNCHANGED <<maxTurns, maxTokens, history, clock, added, lastDocContext,
                   gen, storeVars>>

GetRecentDocumentContextCall ==
    /\ lastDocContext' = GetRecentDocumentContext(history)
    /\ lastOp' = "getRecentDocumentContext"
    /\ UNCHANGED <<maxTurns, maxTokens, history, clock, added, lastContext,
                   gen, storeVars>>



NextMemory ==
    \/ \E inp \in TurnInputs : AddTurn(inp[1], inp[2], inp[3])
    \/ Clear
    \/ GetContextCall

SpecMemory == InitMemory /\ [][NextMemory]_vars

\* addTurn, clear and getRecentDocumentContext calls in any order.
NextRecent ==
    \/ \E inp \in TurnInputs : AddTurn(inp[1], inp[2], inp[3])
    \/ Clear
    \/ GetRecentDocumentContextCall

SpecRecent == InitMemory /\ [][NextRecent]_vars

(***************************************************************************)
(* Generation calls: generateAdvancedChatResponse, the async generator     *)
(* generateStreamingResponse with its consumer, generateNaturalChatResponse.*)
(* The completion service is opaque: each call either throws or returns    *)
(* one of BackendTexts. One action runs a call from one suspension point   *)
(* (await / yield) to the next.                                            *)
(***************************************************************************)
DefaultMaxTurns == 10
DefaultMaxTokens == 2000
ModelsToTry == 3

Rep(c, n) == [i \in 1..n |-> c]

\* generated_text values of the completion service: empty, short with
\* surrounding blanks, long, long with a short trailing fragment, two
\* sentences separated by a blank-only piece, and a bare markdown mark.
BackendTexts ==
    { <<>>,
      <<" ", "o", "k", Kuten, " ">>,
      Rep("a", 20) \o <<Kuten>>,
      Rep("a", 20) \o <<Kuten, "b", "c">>,
      Rep("a", 12) \o <<ZenkakuExcl, " ", Kuten>> \o Rep("b", 12),
      <<"#">> }

Messages == { <<"h", "i">>, <<"S", "L", "G">>, <<"U+8A55", "U+4FA1">> }
CallContexts == { Undefined, <<>>, <<"D">> }

InitChat ==
    /\ maxTurns = DefaultMaxTurns
    /\ maxTokens = DefaultMaxTokens
    /\ history = <<>>
    /\ clock = 0
    /\ added = <<>>
    /\ lastContext = <<>>
    /\ lastDocContext = <<>>
    /\ lastOp = "constructor"
    /\ gen = IdleGen
    /\ StoreNotCreated

\* conversationMemory.addTurn('user', message, documentContext) followed by
\* conversationMemory.addTurn('assistant', text, documentContext).
RecordTurns(g, text) ==
    LET user == Turn("user", g.message, clock, g.documentContext)
        asst == Turn("assistant", text, clock + 1, g.documentContext)
    IN  /\ history' = AddTurnResult(AddTurnResult(history, maxTurns, user),
                                    maxTurns, asst)
        /\ added' = added \o <<user, asst>>
        /\ clock' = clock + 2
        /\ lastOp' = "addTurn"
        /\ UNCHANGED <<maxTurns, maxTokens, lastContext, lastDocContext,
                       storeVars>>

\* A step of a generation call that records no turn.
MemoryUntouched ==
    UNCHANGED <<maxTurns, maxTokens, history, clock, added, lastContext,
                lastDocContext, lastOp,
                storeVars>>

\* Entry of a generation call up to its first await. The two calls that
\* take a memory build their prompt from conversationMemory.getContext()
\* (getChatGPTContext returns it as is while no summary was set);
\* generateAdvancedChatResponse called without a documentContext also reads
\* getRecentDocumentContext().
StartCall(kind, message, documentContext) ==
    /\ gen.pc \in {"idle", "done", "cancelled"}
    /\ clock + 2 <= MaxAdds
    /\ gen' = [IdleGen EXCEPT !.kind = kind, !.pc = "awaitBackend",
                              !.message = message,
                              !.documentContext = documentContext,
                              !.attempt = 1, !.addedBefore = Len(added)]
    /\ lastContext' = IF kind \in {"advanced", "streaming"}
                      THEN GetContext(history, maxTokens)
                      ELSE lastContext
    /\ lastDocContext' = IF kind = "advanced" /\ ~Truthy(documentContext)
                         THEN GetRecentDocumentContext(history)
                         ELSE lastDocContext
    /\ UNCHANGED <<maxTurns, maxTokens, history, clock, added, lastOp,
                   storeVars>>

\* generateAdvancedChatResponse, try block after hf.textGeneration resolved.
AdvancedReturns(text) ==
    /\ gen.kind = "advanced" /\ gen.pc = "awaitBackend"
    /\ LET recentDocContext ==
               IF Truthy(gen.documentContext) THEN gen.documentContext
               ELSE GetRecentDocumentContext(history)
           generatedText ==
               EnhanceResponseQuality(Trim(text), gen.message, recentDocContext)
       IN  /\ RecordTurns(gen, generatedText)
           /\ gen' = [gen EXCEPT !.pc = "done", !.returned = 1,
                                 !.result = generatedText]

\* generateAdvancedChatResponse, catch block.
AdvancedThrows ==
    /\ gen.kind = "advanced" /\ gen.pc = "awaitBackend"
    /\ LET fallbackResponse ==
               GenerateIntelligentFallback(gen.message,
                   IF Truthy(gen.documentContext) THEN gen.documentContext
                   ELSE <<>>)
       IN  /\ RecordTurns(gen, fallbackResponse)
           /\ gen' = [gen EXCEPT !.pc = "done", !.threw = 1,
                                 !.result = fallbackResponse]

\* The consumer is the for await loop of the streaming route: each frame the
\* generator yields is enqueued as a content frame, and when the generator
\* returns the route enqueues [DONE] and closes the stream.
\* The for-loop of generateStreamingResponse resumed with the pieces in
\* g.chunks still to visit: pieces whose trim() is empty are passed over, the
\* next other piece is accumulated and yielded; when no piece is left the
\* two turns are recorded and the generator returns.
RECURSIVE SkipBlank(_)
SkipBlank(chunks) ==
    IF chunks # <<>> /\ Trim(Head(chunks)) = <<>>
    THEN SkipBlank(Tail(chunks)) ELSE chunks

StreamLoop(g) ==
    LET rest == SkipBlank(g.chunks)
    IN  IF rest # <<>>
        THEN /\ gen' = [g EXCEPT !.pc = "yielded",
                                 !.acc = @ \o Head(rest),
                                 !.frames = Append(@, g.acc \o Head(rest)),
                                 !.chunks = Tail(rest),
                                 !.out = Append(@,
                                     ContentFrame(g.acc \o Head(rest)))]
             /\ MemoryUntouched
        ELSE /\ RecordTurns(g, g.fullResponse)
             /\ gen' = [g EXCEPT !.pc = "done", !.chunks = <<>>,
                                 !.out = Append(@, DoneFrame),
                                 !.closed = TRUE]

\* generateStreamingResponse, try block after hf.textGeneration resolved.
StreamReturns(text) ==
    /\ gen.kind = "streaming" /\ gen.pc = "awaitBackend"
    /\ LET fullResponse == Trim(text)
       IN  StreamLoop([gen EXCEPT !.returned = 1,
                                  !.fullResponse = fullResponse,
                                  !.chunks = SplitKeepingEnds(fullResponse)])

\* generateStreamingResponse, catch block: the fallback is yielded.
StreamThrows ==
    /\ gen.kind = "streaming" /\ gen.pc = "awaitBackend"
    /\ LET fallbackResponse ==
               GenerateIntelligentFallback(gen.message,
                   IF Truthy(gen.documentContext) THEN gen.documentContext
                   ELSE <<>>)
       IN  gen' = [gen EXCEPT !.pc = "yieldedFallback", !.threw = 1,
                              !.result = fallbackResponse,
                              !.frames = Append(@, fallbackResponse),
                              !.out = Append(@, ContentFrame(fallbackResponse))]
    /\ MemoryUntouched

\* The consumer asks for the next frame (generator.next()).
ConsumerPull ==
    /\ gen.kind = "streaming"
    /\ \/ /\ gen.pc = "yielded"
          /\ StreamLoop(gen)
       \/ /\ gen.pc = "yieldedFallback"
          /\ gen' = [gen EXCEPT !.pc = "done", !.out = Append(@, DoneFrame),
                                !.closed = TRUE]
          /\ MemoryUntouched

\* A generator that records the turns in a finally block when it is
\* abandoned.
ConsumerCancel_ThenCommit ==
    /\ gen.kind = "streaming"
    /\ gen.pc \in {"yielded", "yieldedFallback"}
    /\ RecordTurns(gen, gen.acc)
    /\ gen' = [gen EXCEPT !.pc = "cancelled"]

\* The consumer stops iterating (break out of for await: generator.return()).
\* The generator is suspended at a yield and never resumes. In the route
\* this is the client going away: enqueue throws, also in the catch block,
\* and nothing more reaches the stream.
ConsumerCancel ==
    /\ gen.kind = "streaming"
    /\ gen.pc \in {"yielded", "yieldedFallback"}
    /\ gen' = [gen EXCEPT !.pc = "cancelled"]
    /\ MemoryUntouched

\* The catch block of generateNaturalChatResponse: the local answer.
NaturalFallback(g) ==
    [g EXCEPT !.pc = "done", !.answeredBy = "fallback",
              !.result = IF Truthy(g.documentContext)
                         THEN GenerateSimpleDocumentResponse(g.message,
                                  g.documentContext)
                         ELSE GenerateSimpleResponse(g.message)]

\* tryHuggingFaceGeneration: one model answered. Non-empty text is returned
\* at once; after empty text the loop goes on to the next model, and past
\* the last one it throws.
NaturalReturns(text) ==
    /\ gen.kind = "natural" /\ gen.pc = "awaitBackend"
    /\ IF Len(Trim(text)) > 0
       THEN gen' = [gen EXCEPT !.pc = "done", !.returned = @ + 1,
                        !.answeredBy = "model",
                        !.result = MakeResponseNatural(Trim(text), gen.message,
                                                       gen.documentContext)]
       ELSE IF gen.attempt < ModelsToTry
       THEN gen' = [gen EXCEPT !.attempt = @ + 1, !.returned = @ + 1]
       ELSE gen' = NaturalFallback([gen EXCEPT !.returned = @ + 1])
    /\ MemoryUntouched

\* A loop over the models that gives up at the first model that throws.
NaturalThrows_GiveUp ==
    /\ gen.kind = "natural" /\ gen.pc = "awaitBackend"
    /\ gen' = NaturalFallback([gen EXCEPT !.threw = @ + 1])
    /\ MemoryUntouched

\* tryHuggingFaceGeneration: one model threw.
NaturalThrows ==
    /\ gen.kind = "natural" /\ gen.pc = "awaitBackend"
    /\ IF gen.attempt < ModelsToTry
       THEN gen' = [gen EXCEPT !.attempt = @ + 1, !.threw = @ + 1]
       ELSE gen' = NaturalFallback([gen EXCEPT !.threw = @ + 1])
    /\ MemoryUntouched

(***************************************************************************)
(* The chat stream route that answers with generateIntelligentFallback and *)
(* streams the answer word by word.                                        *)
(***************************************************************************)
\* responseMessage.split(' ')
RECURSIVE SplitOnSpaceFrom(_, _, _)
SplitOnSpaceFrom(s, cur, out) ==
    IF s = <<>> THEN Append(out, cur)
    ELSE IF Head(s) = " " THEN SplitOnSpaceFrom(Tail(s), <<>>, Append(out, cur))
    ELSE SplitOnSpaceFrom(Tail(s), Append(cur, Head(s)), out)

SplitOnSpace(s) == SplitOnSpaceFrom(s, <<>>, <<>>)

WordMessages == Messages \cup { <<"a", " ", "b", " ", " ", "c">>, <<" ">> }
\* The context built from the search results: '' when nothing matched.
SearchContexts == { <<>>, <<"T", ":", " ", "D">> }

StartWordStream(message) ==
    /\ gen.pc \in {"idle", "done", "cancelled"}
    /\ gen' = [IdleGen EXCEPT !.kind = "wordStream", !.pc = "awaitSearch",
                              !.message = message]
    /\ MemoryUntouched

\* A loop over words that enqueues each word alone instead of the text so
\* far.
WordLoop_WordAlone(g) ==
    IF g.chunks # <<>>
    THEN gen' = [g EXCEPT !.pc = "wordDelay", !.acc = Head(g.chunks),
                          !.frames = Append(@, Head(g.chunks)),
                          !.chunks = Tail(@),
                          !.out = Append(@, ContentFrame(Head(g.chunks)))]
    ELSE gen' = [g EXCEPT !.pc = "done", !.out = Append(@, DoneFrame),
                          !.closed = TRUE]

\* One iteration of the loop over words: words.slice(0, i + 1).join(' ') is
\* enqueued; after the last word [DONE] is enqueued and the stream closed.
WordLoop(g) ==
    IF g.chunks # <<>>
    THEN LET chunk == IF g.frames = <<>> THEN Head(g.chunks)
                      ELSE g.acc \o <<" ">> \o Head(g.chunks)
         IN  gen' = [g EXCEPT !.pc = "wordDelay", !.acc = chunk,
                              !.frames = Append(@, chunk),
                              !.chunks = Tail(@),
                              !.out = Append(@, ContentFrame(chunk))]
    ELSE gen' = [g EXCEPT !.pc = "done", !.out = Append(@, DoneFrame),
                          !.closed = TRUE]

\* getDocuments and searchDocuments resolved; the answer is generated and
\* the first word is enqueued.
SearchResolves(context) ==
    /\ gen.kind = "wordStream" /\ gen.pc = "awaitSearch"
    /\ LET responseMessage == GenerateIntelligentFallback(gen.message, context)
       IN  WordLoop([gen EXCEPT !.documentContext = context,
                                !.result = responseMessage,
                                !.fullResponse = responseMessage,
                                !.chunks = SplitOnSpace(responseMessage)])
    /\ MemoryUntouched

\* A catch block that enqueues the error frame and leaves the stream open.
SearchRejects_LeavesOpen ==
    /\ gen.kind = "wordStream" /\ gen.pc = "awaitSearch"
    /\ gen' = [gen EXCEPT !.pc = "done", !.out = Append(@, ErrorFrame)]
    /\ MemoryUntouched

\* getDocuments or searchDocuments rejected: the catch block enqueues an
\* error frame and closes the stream.
SearchRejects ==
    /\ gen.kind = "wordStream" /\ gen.pc = "awaitSearch"
    /\ gen' = [gen EXCEPT !.pc = "done", !.out = Append(@, ErrorFrame),
                          !.closed = TRUE]
    /\ MemoryUntouched

\* The 50 ms delay elapsed.
WordStep ==
    /\ gen.kind = "wordStream" /\ gen.pc = "wordDelay"
    /\ WordLoop(gen)
    /\ MemoryUntouched

\* The client went away during the delay: the next enqueue throws, and so
\* does the one in the catch block.
ClientAborts ==
    /\ gen.kind = "wordStream" /\ gen.pc = "wordDelay"
    /\ gen' = [gen EXCEPT !.pc = "cancelled"]
    /\ MemoryUntouched

NextChat ==
    \/ \E kind \in {"advanced", "streaming", "natural"},
          message \in Messages, dc \in CallContexts :
           StartCall(kind, message, dc)
    \/ \E text \in BackendTexts : AdvancedReturns(text)
    \/ AdvancedThrows
    \/ \E text \in BackendTexts : StreamReturns(text)
    \/ StreamThrows
    \/ ConsumerPull
    \/ ConsumerCancel
    \/ \E text \in BackendTexts : NaturalReturns(text)
    \/ NaturalThrows
    \/ \E message \in WordMessages : StartWordStream(message)
    \/ \E context \in SearchContexts : SearchResolves(context)
    \/ SearchRejects
    \/ WordStep
    \/ ClientAborts

SpecChat == InitChat /\ [][NextChat]_vars

\* The two streaming routes alone; the streaming route passes '' or the
\* text of the selected documents as documentContext. Every await of a ReadableStream.start
\* settles: the completion service and the document search answer or fail,
\* the 50 ms timers fire, and the for await loop asks for the next frame as
\* long as the client has not gone away.
NextStreams ==
    \/ \E dc \in { <<>>, <<"D">> } : StartCall("streaming", <<"h", "i">>, dc)
    \/ \E text \in BackendTexts : StreamReturns(text)
    \/ StreamThrows
    \/ ConsumerPull
    \/ ConsumerCancel
    \/ \E message \in WordMessages : StartWordStream(message)
    \/ \E context \in SearchContexts : SearchResolves(context)
    \/ SearchRejects
    \/ WordStep
    \/ ClientAborts

SpecStreams ==
    /\ InitChat
    /\ [][NextStreams]_vars
    /\ WF_vars(StreamThrows \/ \E text \in BackendTexts : StreamReturns(text))
    /\ WF_vars(ConsumerPull)
    /\ WF_vars(SearchRejects
                  \/ \E context \in SearchContexts : SearchResolves(context))
    /\ WF_vars(WordStep)

(***************************************************************************)
(* The chat POST handlers: the OpenAI route ("openai") and the natural     *)
(* chat route ("natural"). A request body is "unparsable" or an object     *)
(* whose message is absent (Undefined) or a string.                        *)
(***************************************************************************)
Unparsable == <<"unparsable">>

\* A test that rejects only an absent message.
MessageRequired_AbsentOnly(message) == message = Undefined

\* if (!message || typeof message !== 'string') / if (!message)
MessageRequired(message) == ~Truthy(message)

StartPost(route, session, development, openai, body) ==
    /\ gen.pc \in {"idle", "done", "cancelled"}
    /\ gen' = [IdleGen EXCEPT !.kind = "post", !.pc = "awaitSession",
                  !.http = [IdleHttp EXCEPT !.route = route,
                               !.session = session,
                               !.development = development,
                               !.openai = openai, !.body = body]]
    /\ MemoryUntouched

\* getServerSession resolved: the OpenAI route answers 401 without a
\* session outside development; the natural route has the test commented
\* out.
SessionResolves ==
    /\ gen.kind = "post" /\ gen.pc = "awaitSession"
    /\ IF gen.http.route = "openai" /\ ~gen.http.session
          /\ ~gen.http.development
       THEN gen' = [gen EXCEPT !.pc = "done", !.http.status = 401,
                               !.http.error = "Unauthorized"]
       ELSE gen' = [gen EXCEPT !.pc = "awaitJson"]
    /\ MemoryUntouched

\* request.json() settled: a rejection goes to the catch block (500);
\* otherwise the message is tested and the handler runs up to its next
\* await.
JsonSettles ==
    /\ gen.kind = "post" /\ gen.pc = "awaitJson"
    /\ LET h == gen.http
       IN  IF h.body = Unparsable
           THEN gen' = [gen EXCEPT !.pc = "done", !.http.status = 500,
                                   !.http.error = "Internal server error"]
           ELSE IF MessageRequired(h.body)
           THEN gen' = [gen EXCEPT !.pc = "done", !.http.status = 400,
                                   !.http.error = "Message is required"]
           ELSE IF h.route = "natural"
           THEN gen' = [gen EXCEPT !.pc = "awaitSearch", !.message = h.body,
                                   !.http.searches = @ + 1]
           ELSE IF ~h.openai /\ h.development
           THEN gen' = [gen EXCEPT !.pc = "done", !.message = h.body,
                                   !.http.status = 200]
           ELSE IF ~h.openai
           THEN gen' = [gen EXCEPT !.pc = "done", !.message = h.body,
                                   !.http.status = 503,
                                   !.http.error = "OpenAI service not available"]
           ELSE gen' = [gen EXCEPT !.pc = "awaitCompletion",
                                   !.message = h.body,
                                   !.http.completions = @ + 1]
    /\ MemoryUntouched

\* searchDocuments(message, 5) of the natural route settled; on success
\* generateNaturalChatResponse is called.
PostSearchSettles(resolved) ==
    /\ gen.kind = "post" /\ gen.pc = "awaitSearch"
    /\ IF resolved
       THEN gen' = [gen EXCEPT !.pc = "awaitCompletion",
                               !.http.completions = @ + 1]
       ELSE gen' = [gen EXCEPT !.pc = "done", !.http.status = 500,
                               !.http.error = "Internal server error"]
    /\ MemoryUntouched

\* openai.chat.completions.create / generateNaturalChatResponse settled
\* (the latter never rejects). The OpenAI route goes on to saveChatHistory.
CompletionSettles(resolved) ==
    /\ gen.kind = "post" /\ gen.pc = "awaitCompletion"
    /\ resolved \/ gen.http.route = "openai"
    /\ IF ~resolved
       THEN gen' = [gen EXCEPT !.pc = "done", !.http.status = 500,
                               !.http.error = "Internal server error"]
       ELSE IF gen.http.route = "openai"
       THEN gen' = [gen EXCEPT !.pc = "awaitHistory",
                               !.http.historyWrites = @ + 1]
       ELSE gen' = [gen EXCEPT !.pc = "done", !.http.status = 200]
    /\ MemoryUntouched

\* saveChatHistory resolved.
HistorySaved ==
    /\ gen.kind = "post" /\ gen.pc = "awaitHistory"
    /\ gen' = [gen EXCEPT !.pc = "done", !.http.status = 200]
    /\ MemoryUntouched

NextPost ==
    \/ \E route \in {"openai", "natural"},
          session \in BOOLEAN, development \in BOOLEAN, openai \in BOOLEAN,
          body \in {Unparsable, Undefined, <<>>, <<" ">>, <<"h", "i">>} :
           StartPost(route, session, development, openai, body)
    \/ SessionResolves
    \/ JsonSettles
    \/ \E resolved \in BOOLEAN : PostSearchSettles(resolved)
    \/ \E resolved \in BOOLEAN : CompletionSettles(resolved)
    \/ HistorySaved

SpecPost == InitChat /\ [][NextPost]_vars

(***************************************************************************)
(* Document store (uploads/documents.json) and searchDocuments.            *)
(***************************************************************************)
\* Characters of the model's texts inside the ranges the code tests with
\* /[぀-ゟ゠-ヿ一-龯]/ (kai, sha, ki, tei, mu, kan, kei).
CJKChars ==
    {"U+4F1A", "U+793E", "U+898F", "U+5B9A", "U+7121", "U+95A2", "U+4FC2"}
IsCJK(c) == c \in CJKChars
HasCJK(s) == \E i \in 1..Len(s) : IsCJK(s[i])

\* \w of a JavaScript regular expression.
IsWordChar(c) ==
    \/ \E i \in 1..26 : c = UpperLetters[i] \/ c = LowerLetters[i]
    \/ c \in Digits
    \/ c = "_"

\* \s of a JavaScript regular expression (the blanks the model uses).
IsSpace(c) == c \in Whitespace \/ c = "U+3000"

\* query.toLowerCase().split(/\s+/).filter(term => term.length > 1): the
\* maximal runs of non-blank characters that are longer than one character.
RECURSIVE SpaceTermsFrom(_, _, _)
SpaceTermsFrom(s, cur, out) ==
    LET flushed == IF Len(cur) > 1 THEN Append(out, cur) ELSE out
    IN  IF s = <<>> THEN flushed
        ELSE IF IsSpace(Head(s)) THEN SpaceTermsFrom(Tail(s), <<>>, flushed)
        ELSE SpaceTermsFrom(Tail(s), Append(cur, Head(s)), out)
SpaceTerms(searchLower) == SpaceTermsFrom(searchLower, <<>>, <<>>)

\* searchLower.match(/[CJK]/g): every CJK character, in order.
JapaneseChars(searchLower) ==
    LET cjk == SelectSeq(searchLower, IsCJK)
    IN  [i \in 1..Len(cjk) |-> <<cjk[i]>>]

\* The nested loops extracting the 2-4 character combinations that start at a
\* CJK character: i is the 0-based index, len the combination length.
RECURSIVE NGramsFrom(_, _, _, _)
NGramsFrom(searchLower, i, len, out) ==
    IF i >= Len(searchLower) - 1 THEN out
    ELSE IF ~IsCJK(searchLower[i + 1]) \/ len > Min(4, Len(searchLower) - i)
    THEN NGramsFrom(searchLower, i + 1, 2, out)
    ELSE NGramsFrom(searchLower, i, len + 1,
                    Append(out, SubSeq(searchLower, i + 1, i + len)))
NGrams(searchLower) == NGramsFrom(searchLower, 0, 2, <<>>)

\* [...new Set(terms)]: first occurrences, in order.
RECURSIVE Dedup(_, _)
Dedup(terms, out) ==
    IF terms = <<>> THEN out
    ELSE Dedup(Tail(terms),
               IF \E i \in 1..Len(out) : out[i] = Head(terms) THEN out
               ELSE Append(out, Head(terms)))

\* The search terms of a query (lines 148-178 of searchDocuments).
SearchTerms(query) ==
    LET searchLower == ToLowerCase(query)
        all == SpaceTerms(searchLower)
                 \o (IF HasCJK(searchLower)
                     THEN JapaneseChars(searchLower) \o NGrams(searchLower)
                     ELSE <<>>)
    IN  SelectSeq(Dedup(all, <<>>), LAMBDA t : Len(t) > 0)

\* Occurrences found by the indexOf loop (and by match(/term/g)): a scan from
\* the left that continues after each occurrence. i is 1-based.
RECURSIVE CountFrom(_, _, _)
CountFrom(text, term, i) ==
    LET hits == { k \in i..(Len(text) - Len(term) + 1) :
                     SubSeq(text, k, k + Len(term) - 1) = term }
    IN  IF hits = {} THEN 0
        ELSE LET first == CHOOSE k \in hits : \A j \in hits : k <= j
             IN  1 + CountFrom(text, term, first + Len(term))
Occurrences(text, term) == CountFrom(text, term, 1)

\* \b between text[k] and text[k + 1] (k = 0 and k = Len(text) are the ends).
WordBoundary(text, k) ==
    LET before == k >= 1 /\ IsWordChar(text[k])
        after == k < Len(text) /\ IsWordChar(text[k + 1])
    IN  before # after

\* Matches of new RegExp(`\\b${term}\\b`, 'g').
RECURSIVE WordCountFrom(_, _, _)
WordCountFrom(text, term, i) ==
    LET hits == { k \in i..(Len(text) - Len(term) + 1) :
                     /\ SubSeq(text, k, k + Len(term) - 1) = term
                     /\ WordBoundary(text, k - 1)
                     /\ WordBoundary(text, k + Len(term) - 1) }
    IN  IF hits = {} THEN 0
        ELSE LET first == CHOOSE k \in hits : \A j \in hits : k <= j
             IN  1 + WordCountFrom(text, term, first + Len(term))
ExactMatches(text, term) == WordCountFrom(text, term, 1)

\* The contribution of one term, in tenths (the code adds occurrences,
\* term.length * 0.1 and exactMatches * 2).
TermScore(textLower, term) ==
    LET occurrences == Occurrences(textLower, term)
    IN  IF Len(term) = 0 \/ occurrences = 0 THEN 0
        ELSE 10 * occurrences + Len(term)
               + (IF HasCJK(term) THEN 0
                  ELSE 20 * ExactMatches(textLower, term))

\* calculateMatchScore, in tenths.
RECURSIVE SumTermScores(_, _)
SumTermScores(textLower, terms) ==
    IF terms = <<>> THEN 0
    ELSE TermScore(textLower, Head(terms))
           + SumTermScores(textLower, Tail(terms))
CalculateMatchScore(text, searchTerms) ==
    IF text = <<>> THEN 0
    ELSE SumTermScores(ToLowerCase(text), searchTerms)

SentencePunct == {".", "!", "?", Kuten, ZenkakuExcl, ZenkakuQuest}

\* text.split(/[.!?。！？]\s+/)
RECURSIVE DropSpaces(_)
DropSpaces(s) == IF s # <<>> /\ IsSpace(Head(s)) THEN DropSpaces(Tail(s)) ELSE s
RECURSIVE SnippetSentencesFrom(_, _, _)
SnippetSentencesFrom(s, cur, out) ==
    IF s = <<>> THEN Append(out, cur)
    ELSE IF Head(s) \in SentencePunct /\ Len(s) >= 2 /\ IsSpace(s[2])
    THEN SnippetSentencesFrom(DropSpaces(Tail(s)), <<>>, Append(out, cur))
    ELSE SnippetSentencesFrom(Tail(s), Append(cur, Head(s)), out)
SnippetSentences(text) == SnippetSentencesFrom(text, <<>>, <<>>)

SnippetMaxLength == 200
Ellipsis == <<".", ".", ".">>

\* text.substring(0, maxLength) + '...' when longer than maxLength
Clip(text, maxLength) ==
    IF Len(text) > maxLength THEN SubSeq(text, 1, maxLength) \o Ellipsis
    ELSE text

\* The loop of findBestSnippet from sentence i (1-based).
RECURSIVE BestSnippetFrom(_, _, _, _, _, _)
BestSnippetFrom(sentences, searchTerms, maxLength, i, bestSnippet, bestScore) ==
    IF i > Len(sentences) THEN bestSnippet
    ELSE LET withPrev == IF i > 1
                         THEN sentences[i - 1] \o <<" ">> \o sentences[i]
                         ELSE sentences[i]
             withNext == IF i < Len(sentences)
                         THEN withPrev \o <<" ">> \o sentences[i + 1]
                         ELSE withPrev
             snippet == Clip(withNext, maxLength)
             score == CalculateMatchScore(snippet, searchTerms)
         IN  IF score > bestScore
             THEN BestSnippetFrom(sentences, searchTerms, maxLength, i + 1,
                                  snippet, score)
             ELSE BestSnippetFrom(sentences, searchTerms, maxLength, i + 1,
                                  bestSnippet, bestScore)

\* findBestSnippet
FindBestSnippet(text, searchTerms, maxLength) ==
    LET bestSnippet == BestSnippetFrom(SnippetSentences(text), searchTerms,
                                       maxLength, 1, <<>>, 0)
    IN  IF bestSnippet # <<>> THEN bestSnippet ELSE Clip(text, maxLength)

TitleWeight == 10
DescriptionWeight == 5
\* Tags weighted like the description.
TagsWeight_AsDescription == DescriptionWeight

TagsWeight == 8
\* The content weighted like the title.
ContentWeight_AsTitle == TitleWeight

ContentWeight == 2

\* The body of the loop over the documents: the result for one document
\* (relevanceScore in tenths; 0 when the document is left out).
ScoreDocument(doc, searchTerms) ==
    LET titleScore == CalculateMatchScore(doc.title, searchTerms)
        descriptionScore == CalculateMatchScore(doc.description, searchTerms)
        tagsText == Join(doc.tags, <<" ">>)
        tagsScore == CalculateMatchScore(tagsText, searchTerms)
        contentScore ==
            IF Len(doc.extractedText) > 0
            THEN CalculateMatchScore(doc.extractedText, searchTerms) ELSE 0
        totalScore == titleScore * TitleWeight
                        + descriptionScore * DescriptionWeight
                        + tagsScore * TagsWeight
                        + contentScore * ContentWeight
        bestMatchType ==
            IF titleScore > 0 THEN "title"
            ELSE IF descriptionScore > 0 THEN "description"
            ELSE IF tagsScore > 0 THEN "tags"
            ELSE "content"
        matchedText ==
            IF titleScore > 0 THEN doc.title
            ELSE IF descriptionScore > 0 THEN doc.description
            ELSE IF tagsScore > 0 THEN tagsText
            ELSE IF contentScore > 0
            THEN FindBestSnippet(doc.extractedText, searchTerms,
                                 SnippetMaxLength)
            ELSE <<>>
    IN  [document |-> doc, relevanceScore |-> totalScore,
         matchType |-> bestMatchType, matchedText |-> matchedText]

\* results.sort((a, b) => b.relevanceScore - a.relevanceScore): stable,
\* highest score first.
RECURSIVE InsertByScore(_, _)
InsertByScore(sorted, r) ==
    IF sorted = <<>> THEN <<r>>
    ELSE IF Head(sorted).relevanceScore >= r.relevanceScore
    THEN <<Head(sorted)>> \o InsertByScore(Tail(sorted), r)
    ELSE <<r>> \o sorted
\* A search that returns the results in store order.
SortByScore_StoreOrder(results, sorted) == results

RECURSIVE SortByScore(_, _)
SortByScore(results, sorted) ==
    IF results = <<>> THEN sorted
    ELSE SortByScore(Tail(results), InsertByScore(sorted, Head(results)))

\* A search that skips the filter on isActive.
ActiveDocuments_All(documents) == documents

\* documents.filter(doc => doc.isActive)
ActiveDocuments(documents) == SelectSeq(documents, LAMBDA doc : doc.isActive)

\* doc.tags.join(' ') throws a TypeError for an active record without tags;
\* the loop has no try, so the error leaves searchDocuments. (A record
\* without title, description or extractedText scores 0 for that field.)
SearchRaises(allDocuments, query) ==
    /\ ~(query = <<>> \/ Len(Trim(query)) = 0)
    /\ \E i \in 1..Len(allDocuments) :
           allDocuments[i].isActive /\ allDocuments[i].tags = Undefined

\* searchDocuments after the collection was read and parsed.
SearchDocuments(allDocuments, query, limit) ==
    LET documents == ActiveDocuments(allDocuments)
    IN  IF query = <<>> \/ Len(Trim(query)) = 0
        THEN [i \in 1..Len(JsSlice(documents, 0, limit)) |->
                 [document |-> documents[i], relevanceScore |-> 0,
                  matchType |-> "content", matchedText |-> Undefined]]
        ELSE LET searchTerms == SearchTerms(query)
                 scored == [i \in 1..Len(documents) |->
                               ScoreDocument(documents[i], searchTerms)]
                 results == SelectSeq(scored,
                                LAMBDA r : r.relevanceScore > 0)
             IN  JsSlice(SortByScore(results, <<>>), 0, limit)

\* The two filters of getDocuments on one active record: "keep", "drop",
\* or "throw" when a field the callback dereferences is undefined. The
\* query test short-circuits from title to tags; the tag test runs only
\* for a non-empty tags argument.
FilterOutcome(doc, query, tags) ==
    LET searchLower == ToLowerCase(query)
        Has(field) == Includes(ToLowerCase(field), searchLower)
        byQuery ==
            IF ~Truthy(query) THEN "keep"
            ELSE IF doc.title = Undefined THEN "throw"
            ELSE IF Has(doc.title) THEN "keep"
            ELSE IF doc.description = Undefined THEN "throw"
            ELSE IF Has(doc.description) THEN "keep"
            ELSE IF doc.extractedText = Undefined THEN "throw"
            ELSE IF Has(doc.extractedText) THEN "keep"
            ELSE IF doc.tags = Undefined THEN "throw"
            ELSE IF \E i \in 1..Len(doc.tags) : Has(doc.tags[i]) THEN "keep"
            ELSE "drop"
        byTags ==
            IF tags = Undefined \/ Len(tags) = 0 THEN "keep"
            ELSE IF doc.tags = Undefined THEN "throw"
            ELSE IF \E i \in 1..Len(tags), j \in 1..Len(doc.tags) :
                        doc.tags[j] = tags[i]
            THEN "keep"
            ELSE "drop"
    IN  IF byQuery # "keep" THEN byQuery ELSE byTags

\* A page test that also reports more when the page ends at the last record.
HasMore_Inclusive(offset, limit, total) == offset + limit <= total

\* const hasMore = offset + limit < total
HasMore(offset, limit, total) == offset + limit < total

\* getDocuments after the collection was read and parsed: filter, sort by
\* uploadedAt (newest first, records of one instant keep their order),
\* then the page.
GetDocuments(allDocuments, query, tags, limit, offset) ==
    LET active == ActiveDocuments(allDocuments)
        documents == SelectSeq(active,
                         LAMBDA doc : FilterOutcome(doc, query, tags) = "keep")
        total == Len(documents)
        Position(i) ==
            1 + Cardinality({ j \in 1..total :
                    \/ documents[j].uploadedAt > documents[i].uploadedAt
                    \/ /\ documents[j].uploadedAt = documents[i].uploadedAt
                       /\ j < i })
        sorted == [k \in 1..total |->
                      documents[CHOOSE i \in 1..total : Position(i) = k]]
    IN  IF \E i \in 1..Len(active) :
               FilterOutcome(active[i], query, tags) = "throw"
        THEN [raised |-> TRUE]
        ELSE [raised |-> FALSE,
              documents |-> JsSlice(sorted, offset, offset + limit),
              total |-> total,
              hasMore |-> HasMore(offset, limit, total)]

(***************************************************************************)
(* Store operations. Every await of the code is a suspension point, so an   *)
(* operation is a sequence of steps: existsSync (pc "ensure"), the          *)
(* writeFile of ensureDocumentsDB ("ensureWrite"), readFile + JSON.parse     *)
(* with the synchronous code after it ("read"), extractTextFromFile          *)
(* ("extract") and the final writeFile ("write"). readFile and writeFile     *)
(* are each taken as one step.                                              *)
(***************************************************************************)
Kaisha == <<"U+4F1A", "U+793E">>
ReportWord == <<"r", "e", "p", "o", "r", "t">>

\* Title, description, tags and extractedText of the uploaded files: one
\* whose extraction produced nothing, one with CJK content, one Latin.
DocShapes ==
    { [title |-> Kaisha \o <<"U+898F", "U+5B9A">>, description |-> <<>>,
       tags |-> <<>>, extractedText |-> <<>>],
      [title |-> <<"U+7121", "U+95A2", "U+4FC2">>, description |-> <<>>,
       tags |-> <<>>, extractedText |-> Kaisha \o <<" ">> \o Kaisha],
      [title |-> <<"m", "e", "m", "o">>,
       description |-> <<"a", " ", "R", "e", "p", "o", "r", "t">>,
       tags |-> << <<"h", "r">>, ReportWord \o <<"s">> >>,
       extractedText |-> <<"x", ".", " ">> \o ReportWord \o <<"!", " ", "n", "o">>] }

Queries == { <<>>, <<" ">>, Kaisha, ReportWord }
Limits == {1, 5}
\* What extractTextFromFile returns when it does not throw.
ExtractedTexts == { <<>>, Kaisha \o <<".">> }
\* 'requires pdf-parse library' and 'PDF text extraction is being processed'
Placeholders == { <<"[requires pdf-parse library]">>,
                  <<"[PDF text extraction is being processed]">> }

NewDocument(id, shape) ==
    [id |-> id, title |-> shape.title, description |-> shape.description,
     tags |-> shape.tags, extractedText |-> shape.extractedText,
     isActive |-> TRUE, updatedAt |-> "none", uploadedAt |-> id]

CanStart(p) == procs[p].pc \in {"idle", "done"}

Begin(p, rec) ==
    /\ CanStart(p)
    /\ procs' = [procs EXCEPT ![p] = rec]
    /\ UNCHANGED <<fileExists, file, savedIds, deletedIds, memVars, gen>>

\* An upload calls saveDocument with a record that carries a fresh id.
StartSave(p, shape) ==
    /\ nextId <= MaxDocs
    /\ Begin(p, [IdleProc EXCEPT !.op = "save", !.pc = "ensure",
                                 !.id = nextId,
                                 !.doc = NewDocument(nextId, shape)])
    /\ nextId' = nextId + 1

StartDelete(p, id) ==
    /\ Begin(p, [IdleProc EXCEPT !.op = "delete", !.pc = "ensure", !.id = id])
    /\ UNCHANGED nextId

StartSearch(p, query, limit) ==
    /\ Begin(p, [IdleProc EXCEPT !.op = "search", !.pc = "ensure",
                                 !.query = query, !.limit = limit])
    /\ UNCHANGED nextId

\* GET /api/documents: getDocuments(query, tags, limit, offset).
StartList(p, query, tags, limit, offset) ==
    /\ Begin(p, [IdleProc EXCEPT !.op = "list", !.pc = "ensure",
                                 !.query = query, !.tags = tags,
                                 !.limit = limit, !.offset = offset])
    /\ UNCHANGED nextId

\* POST /api/documents/reprocess: getDocumentById, then saveDocument.
StartReprocess(p, id) ==
    /\ Len(file) < MaxRecords
    /\ Begin(p, [IdleProc EXCEPT !.op = "reprocess", !.pc = "ensure",
                                 !.phase = "lookup", !.id = id])
    /\ UNCHANGED nextId

\* ensureDocumentsDB: if (!existsSync(path)) await writeFile(path, '[]')
EnsureCheck(p) ==
    /\ procs[p].pc = "ensure"
    /\ procs' = [procs EXCEPT ![p].pc =
                     IF fileExists THEN "read" ELSE "ensureWrite"]
    /\ UNCHANGED <<fileExists, file, nextId, savedIds, deletedIds, memVars, gen>>

EnsureWrite(p) ==
    /\ procs[p].pc = "ensureWrite"
    /\ fileExists' = TRUE
    /\ file' = <<>>
    /\ procs' = [procs EXCEPT ![p].pc = "read"]
    /\ UNCHANGED <<nextId, savedIds, deletedIds, memVars, gen>>

\* documents.findIndex(doc => doc.id === id): 0 when there is none.
FindIndex(documents, id) ==
    IF \E i \in 1..Len(documents) : documents[i].id = id
    THEN CHOOSE i \in 1..Len(documents) :
             /\ documents[i].id = id
             /\ \A j \in 1..(i - 1) : documents[j].id # id
    ELSE 0

\* documents.find(doc => doc.id === id && doc.isActive): <<>> for null,
\* else the one-element sequence holding the record.
GetDocumentById(documents, id) ==
    LET hits == SelectSeq(documents, LAMBDA doc : doc.id = id /\ doc.isActive)
    IN  IF hits = <<>> THEN <<>> ELSE <<Head(hits)>>

\* The reprocess route's test that the stored text needs no extraction.
HasExtractedText(doc) ==
    /\ doc.extractedText # <<>>
    /\ \A ph \in Placeholders : ~Includes(doc.extractedText, ph)

\* readFile + JSON.parse and the synchronous code that follows them.
Read(p) ==
    /\ procs[p].pc = "read"
    /\ LET me == procs[p]
           documents == file
           saving == me.op = "save" \/ (me.op = "reprocess" /\ me.phase = "save")
           docIndex == FindIndex(documents, me.id)
           found == GetDocumentById(documents, me.id)
       IN  procs' = [procs EXCEPT ![p] =
             IF saving
             THEN [me EXCEPT !.pc = "write", !.buf = Append(documents, me.doc)]
             ELSE IF me.op = "delete"
             THEN IF docIndex = 0
                  THEN [me EXCEPT !.pc = "done", !.buf = <<>>, !.result = <<FALSE>>]
                  ELSE [me EXCEPT !.pc = "write",
                            !.buf = [documents EXCEPT ![docIndex].isActive = FALSE]]
             ELSE IF me.op = "search"
             THEN IF SearchRaises(documents, me.query)
                  THEN [me EXCEPT !.pc = "done", !.raised = TRUE]
                  ELSE [me EXCEPT !.pc = "done",
                            !.result = SearchDocuments(documents, me.query,
                                                       me.limit)]
             ELSE IF me.op = "list"
             THEN LET listed == GetDocuments(documents, me.query, me.tags,
                                             me.limit, me.offset)
                  IN  IF listed.raised
                      THEN [me EXCEPT !.pc = "done", !.raised = TRUE]
                      ELSE [me EXCEPT !.pc = "done", !.result = <<listed>>]
             ELSE IF found = <<>>
             THEN [me EXCEPT !.pc = "done", !.result = <<404>>]
             ELSE IF HasExtractedText(found[1])
             THEN [me EXCEPT !.pc = "done", !.result = <<200>>]
             ELSE [me EXCEPT !.pc = "extract", !.doc = found[1]]]
    /\ UNCHANGED <<fileExists, file, nextId, savedIds, deletedIds, memVars, gen>>

\* extractTextFromFile returned: the route builds updatedDocument and calls
\* saveDocument with it.
ExtractReturns(p, extractedText) ==
    /\ procs[p].pc = "extract"
    /\ procs' = [procs EXCEPT ![p] =
                    [@ EXCEPT !.pc = "ensure", !.phase = "save",
                              !.doc = [@ EXCEPT !.extractedText = extractedText,
                                                !.updatedAt = "set"]]]
    /\ UNCHANGED <<fileExists, file, nextId, savedIds, deletedIds, memVars, gen>>

\* extractTextFromFile threw: the route answers 500.
ExtractThrows(p) ==
    /\ procs[p].pc = "extract"
    /\ procs' = [procs EXCEPT ![p] = [@ EXCEPT !.pc = "done", !.result = <<500>>]]
    /\ UNCHANGED <<fileExists, file, nextId, savedIds, deletedIds, memVars, gen>>

\* writeFile(path, JSON.stringify(documents)) of saveDocument / deleteDocument.
Write(p) ==
    /\ procs[p].pc = "write"
    /\ fileExists' = TRUE
    /\ file' = procs[p].buf
    /\ procs' = [procs EXCEPT ![p] =
                    [@ EXCEPT !.pc = "done", !.buf = <<>>,
                              !.result = IF procs[p].op = "delete"
                                         THEN <<TRUE>>
                                         ELSE <<procs[p].doc>>]]
    /\ savedIds' = IF procs[p].op = "delete" THEN savedIds
                   ELSE savedIds \cup {procs[p].id}
    /\ deletedIds' = IF procs[p].op = "delete"
                     THEN deletedIds \cup {procs[p].id}
                     ELSE deletedIds \ {procs[p].id}
    /\ UNCHANGED <<nextId, memVars, gen>>

InitStore ==
    /\ maxTurns = DefaultMaxTurns
    /\ maxTokens = DefaultMaxTokens
    /\ history = <<>>
    /\ clock = 0
    /\ added = <<>>
    /\ lastContext = <<>>
    /\ lastDocContext = <<>>
    /\ lastOp = "constructor"
    /\ gen = IdleGen
    /\ StoreNotCreated

\* One request at a time, every operation.
NextStore ==
    \/ \E shape \in DocShapes : StartSave(1, shape)
    \/ \E id \in 1..MaxDocs : StartDelete(1, id)
    \/ \E query \in Queries, limit \in Limits : StartSearch(1, query, limit)
    \/ \E id \in 1..MaxDocs : StartReprocess(1, id)
    \/ StartList(1, Undefined, Undefined, 20, 0)
    \/ EnsureCheck(1)
    \/ EnsureWrite(1)
    \/ Read(1)
    \/ \E text \in ExtractedTexts : ExtractReturns(1, text)
    \/ ExtractThrows(1)
    \/ Write(1)

SpecStore == InitStore /\ [][NextStore]_vars

\* Concurrent saveDocument and deleteDocument calls.
NextRace ==
    \/ \E p \in Procs, shape \in DocShapes : StartSave(p, shape)
    \/ \E p \in Procs, id \in 1..MaxDocs : StartDelete(p, id)
    \/ \E p \in Procs : EnsureCheck(p)
    \/ \E p \in Procs : EnsureWrite(p)
    \/ \E p \in Procs : Read(p)
    \/ \E p \in Procs : Write(p)

SpecRace == InitStore /\ [][NextRace]_vars

\* A searchDocuments call in flight together with saveDocument and
\* deleteDocument calls.
NextSearchRace ==
    \/ \E p \in Procs, shape \in DocShapes : StartSave(p, shape)
    \/ \E p \in Procs, id \in 1..MaxDocs : StartDelete(p, id)
    \/ \E p \in Procs : StartSearch(p, Kaisha, 5)
    \/ \E p \in Procs : EnsureCheck(p)
    \/ \E p \in Procs : EnsureWrite(p)
    \/ \E p \in Procs : Read(p)
    \/ \E p \in Procs : Write(p)

SpecSearchRace == InitStore /\ [][NextSearchRace]_vars

(***************************************************************************)
(* searchDocuments as a function of the stored collection, the query and   *)
(* the limit: the collection is any sequence of distinct records of        *)
(* SearchDocs, the file exists, and searches run one at a time.            *)
(***************************************************************************)
MaxCollection == 3

\* Records of documents.json: titles and texts holding the query words once
\* or twice, inside a longer word or as a word of their own, a title longer
\* than a snippet, a record without tags and a deleted record. uploadedAt
\* is the instant of the upload; two records share one.
SearchDocs ==
    { [id |-> 1, title |-> Kaisha \o <<"U+898F", "U+5B9A", " ">> \o ReportWord,
       description |-> <<>>, tags |-> <<>>, extractedText |-> <<>>,
       isActive |-> TRUE, updatedAt |-> "none", uploadedAt |-> 3],
      [id |-> 2, title |-> <<"U+7121", "U+95A2", "U+4FC2">>,
       description |-> <<>>, tags |-> <<>>,
       extractedText |-> Kaisha \o <<" ">> \o Kaisha \o <<".", " ">>
                           \o ReportWord \o <<" ">> \o ReportWord,
       isActive |-> TRUE, updatedAt |-> "none", uploadedAt |-> 1],
      [id |-> 3, title |-> <<"t", "h", "r", "e", "e">>,
       description |-> <<>>, tags |-> <<>>, extractedText |-> <<>>,
       isActive |-> TRUE, updatedAt |-> "none", uploadedAt |-> 2],
      [id |-> 4, title |-> <<"m", "e", "m", "o">>,
       description |-> <<>>, tags |-> <<>>,
       extractedText |-> <<"h", "r", " ", "h", "r">>,
       isActive |-> TRUE, updatedAt |-> "none", uploadedAt |-> 2],
      [id |-> 5, title |-> <<"m", "e", "m", "o">>,
       description |-> <<"a", " ", "R", "e", "p", "o", "r", "t">>,
       tags |-> << <<"h", "r">>, ReportWord \o <<"s">> >>,
       extractedText |-> <<"x", ".", " ">> \o ReportWord \o <<"!", " ", "n", "o">>,
       isActive |-> TRUE, updatedAt |-> "none", uploadedAt |-> 5],
      [id |-> 6, title |-> <<"H", "R", " ">> \o Rep("z", SnippetMaxLength + 4),
       description |-> <<>>, tags |-> <<>>, extractedText |-> <<>>,
       isActive |-> TRUE, updatedAt |-> "none", uploadedAt |-> 4],
      [id |-> 7, title |-> <<"h", "r">>,
       description |-> <<>>, tags |-> Undefined, extractedText |-> <<>>,
       isActive |-> TRUE, updatedAt |-> "none", uploadedAt |-> 6],
      [id |-> 8, title |-> Kaisha \o <<" ", "h", "r", " ">> \o ReportWord,
       description |-> <<>>, tags |-> <<>>, extractedText |-> <<>>,
       isActive |-> FALSE, updatedAt |-> "none", uploadedAt |-> 7] }

SearchQueries == { <<>>, <<" ">>, Kaisha, ReportWord, <<"h", "r">> }
SearchLimits == {0, 1, 5}

InitSearch ==
    /\ maxTurns = DefaultMaxTurns
    /\ maxTokens = DefaultMaxTokens
    /\ history = <<>>
    /\ clock = 0
    /\ added = <<>>
    /\ lastContext = <<>>
    /\ lastDocContext = <<>>
    /\ lastOp = "constructor"
    /\ gen = IdleGen
    /\ fileExists = TRUE
    /\ \E n \in 0..MaxCollection :
           /\ file \in [1..n -> SearchDocs]
           /\ \A i, j \in 1..n : i # j => file[i] # file[j]
    /\ procs = [p \in Procs |-> IdleProc]
    /\ nextId = 1
    /\ savedIds = {}
    /\ deletedIds = {}

NextSearch ==
    \/ \E query \in SearchQueries, limit \in SearchLimits :
           StartSearch(1, query, limit)
    \/ EnsureCheck(1)
    \/ Read(1)

SpecSearch == InitSearch /\ [][NextSearch]_vars

\* getDocuments as a function of the stored collection and of the q, tags,
\* limit and offset of the request, over the same collections; page is the
\* pair <<limit, offset>>.
NextList ==
    \/ \E query \in { Undefined, Kaisha, <<"H", "R">> },
          tags \in { Undefined, <<>>, << <<"h", "r">>, <<"x">> >> },
          page \in { <<0, 0>>, <<1, 0>>, <<1, 1>>, <<20, 0>> } :
           StartList(1, query, tags, page[1], page[2])
    \/ EnsureCheck(1)
    \/ Read(1)

SpecList == InitSearch /\ [][NextList]_vars

(***************************************************************************)
(* Properties of ConversationMemory (checked under SpecMemory).             *)
(***************************************************************************)

\* C1: for every maxTurns >= 0, in every state reached after an addTurn
\* returns, the number of stored turns is at most maxTurns.
C1_HistoryWithinMaxTurns == Len(history) <= maxTurns

\* The last n elements of a sequence.
LastN(s, n) == SubSeq(s, Len(s) - n + 1, Len(s))

\* C2: with maxTurns = k >= 1, after n addTurn calls the history is exactly
\* the last min(n, k) turns that were added, in the order they were added.
C2_HistoryIsLastAdded ==
    maxTurns >= 1 => history = LastN(added, Min(Len(added), maxTurns))

C2_Witness ==
    /\ maxTurns = 3 /\ Len(added) = 5 /\ Len(history) = 3
    /\ lastOp = "addTurn"

\* C10: the transcript getContext returns has an estimated token count
\* (length / 4) of at most maxTokens, and it is '' when maxTokens = 0.
C10_ContextWithinBudget ==
    /\ Len(lastContext) <= 4 * maxTokens
    /\ maxTokens = 0 => lastContext = <<>>

\* getContext returned a transcript cut by the budget: only the newest of
\* several turns fitted.
C10_Witness ==
    /\ lastOp = "getContext"
    /\ Len(history) >= 2
    /\ lastContext = TurnText(history[Len(history)])

(***************************************************************************)
(* Properties of the generation calls (checked under SpecChat).            *)
(***************************************************************************)
\* The turns the call in gen has added to the memory so far.
NewTurns == SubSeq(added, gen.addedBefore + 1, Len(added))

\* The text the call delivered: the last frame of a stream, else the result.
Delivered ==
    IF gen.kind = "streaming"
    THEN IF gen.frames = <<>> THEN <<>> ELSE gen.frames[Len(gen.frames)]
    ELSE gen.result

\* Exactly one user turn with the message, then one assistant turn.
OneExchange(turns) ==
    /\ Len(turns) = 2
    /\ turns[1].role = "user" /\ turns[1].content = gen.message
    /\ turns[2].role = "assistant"

\* C3: a generateStreamingResponse call commits its memory update exactly
\* once whether the consumer pulled every frame or stopped after k >= 1
\* frames (stated here for the calls whose completion-service call succeeded).
C3_StreamingCommitsOnce ==
    (/\ gen.kind = "streaming"
     /\ gen.returned = 1
     /\ gen.pc \in {"done", "cancelled"}
     /\ Len(gen.frames) >= 1)
    => OneExchange(NewTurns)

\* C4: when the completion service fails, a completed generateAdvancedChatResponse
\* or generateStreamingResponse call leaves exactly one new user turn and one
\* new assistant turn whose content is the fallback text delivered.
C4_FallbackRecordedOnce ==
    (/\ gen.kind \in {"advanced", "streaming"}
     /\ gen.threw >= 1
     /\ gen.pc = "done")
    => /\ OneExchange(NewTurns)
       /\ NewTurns[2].content = Delivered

\* C5: when every completion-service call of an invocation throws, the three
\* entry points finish without raising and deliver a non-empty text.
C5_FailureYieldsText ==
    (/\ gen.threw >= 1 /\ gen.returned = 0
     /\ gen.pc \in {"done", "cancelled", "yieldedFallback"})
    => /\ ~gen.raised
       /\ Delivered # <<>>

C5_Witness ==
    /\ gen.kind = "streaming" /\ gen.pc = "done"
    /\ gen.threw = 1 /\ Len(gen.frames) = 1

(***************************************************************************)
(* Properties of the document store.                                       *)
(***************************************************************************)
AllReturned == \A p \in Procs : procs[p].pc \in {"idle", "done"}

\* C6 (SpecRace): once all concurrent saveDocument and deleteDocument calls
\* have completed, every saved document is in the persisted collection and
\* every deleted document is inactive.
C6_NoLostUpdate ==
    AllReturned =>
        /\ \A id \in savedIds : \E i \in 1..Len(file) : file[i].id = id
        /\ \A id \in deletedIds :
               \A i \in 1..Len(file) : file[i].id = id => ~file[i].isActive

\* C7 (SpecStore): no document whose isActive is false appears in a result
\* of searchDocuments.
C7_NoInactiveInResults ==
    \A p \in Procs :
        (procs[p].op = "search" /\ procs[p].pc = "done") =>
            \A i \in 1..Len(procs[p].result) :
                procs[p].result[i].document.isActive

\* A non-blank search returned results while the collection held a deleted
\* document that matches the query.
C7_Witness ==
    /\ procs[1].op = "search" /\ procs[1].pc = "done"
    /\ Len(Trim(procs[1].query)) > 0
    /\ Len(procs[1].result) >= 1
    /\ \E j \in 1..Len(file) :
           /\ ~file[j].isActive
           /\ ScoreDocument(file[j], SearchTerms(procs[1].query)).relevanceScore > 0

\* C8 (SpecStore): no two records of the persisted collection carry the
\* same id.
C8_IdsUnique ==
    \A i, j \in 1..Len(file) : i # j => file[i].id # file[j].id

\* C9 (SpecSearchRace): no step of a searchDocuments call changes the
\* persisted collection (an absent file counts as the empty collection).
C9_SearchNeverWrites ==
    [][file' # file =>
          \A p \in Procs : procs'[p] # procs[p] => procs[p].op # "search"]_vars

(***************************************************************************)
(* Properties of the streamed frames.                                      *)
(***************************************************************************)
\* C11 (SpecChat): when the backend produced a non-empty answer and the
\* stream was consumed to its end, the last frame yielded by
\* generateStreamingResponse is the complete answer string (the text
\* recorded as the assistant turn).
C11_LastFrameIsFullAnswer ==
    (/\ gen.kind = "streaming" /\ gen.returned = 1 /\ gen.pc = "done"
     /\ gen.fullResponse # <<>>) =>
        /\ Len(gen.frames) >= 1
        /\ gen.frames[Len(gen.frames)] = gen.fullResponse
        /\ gen.frames[Len(gen.frames)] = NewTurns[2].content

\* The frames of each type put on the response stream so far.
FramesOfType(t) == SelectSeq(gen.out, LAMBDA f : f.type = t)

IsPrefix(a, b) == Len(a) <= Len(b) /\ SubSeq(b, 1, Len(a)) = a

\* [DONE] is never followed by another frame, and the text of each content
\* frame is a prefix of the text of the next one.
SentinelLastAndFramesCumulative ==
    /\ \A i \in 1..Len(gen.out) : gen.out[i].type = "done" => i = Len(gen.out)
    /\ LET content == FramesOfType("content")
       IN  \A i \in 1..(Len(content) - 1) :
               IsPrefix(content[i].content, content[i + 1].content)

\* C12 as stated (SpecChat): every closed response stream carries [DONE]
\* exactly once, after the last content frame and with no frame after it,
\* and its content frames are cumulative.
C12_SentinelExactlyOnce ==
    /\ SentinelLastAndFramesCumulative
    /\ gen.closed => Len(FramesOfType("done")) = 1

\* C12 amended (SpecChat): [DONE] is emitted at most once, never followed by
\* a frame, and content frames are cumulative; a stream closed without an
\* error frame carries [DONE] exactly once, and a stream closed by the
\* route's error path carries an error frame and no [DONE].
C12_SentinelUnlessError ==
    /\ SentinelLastAndFramesCumulative
    /\ Len(FramesOfType("done")) <= 1
    /\ gen.closed =>
          Len(FramesOfType("done")) + Len(FramesOfType("error")) = 1

\* A stream of several content frames closed by [DONE].
C12_Witness ==
    /\ gen.closed
    /\ Len(FramesOfType("content")) >= 3
    /\ gen.out[Len(gen.out)].type = "done"

(***************************************************************************)
(* Properties of searchDocuments (checked under SpecSearch).               *)
(***************************************************************************)
\* The search of request 1 returned normally.
SearchReturned ==
    procs[1].op = "search" /\ procs[1].pc = "done" /\ ~procs[1].raised

NonBlankQuery == Len(Trim(procs[1].query)) > 0

\* The position of the document in the result, 0 when it is not there.
RankOf(doc) ==
    IF \E k \in 1..Len(procs[1].result) : procs[1].result[k].document = doc
    THEN CHOOSE k \in 1..Len(procs[1].result) :
             procs[1].result[k].document = doc
    ELSE 0

\* C13: for a non-empty query the returned sequence is sorted by
\* relevanceScore in non-increasing order and has at most limit entries.
C13_SortedAndLimited ==
    (SearchReturned /\ NonBlankQuery) =>
        LET result == procs[1].result
        IN  /\ Len(result) <= procs[1].limit
            /\ \A k \in 1..(Len(result) - 1) :
                   result[k].relevanceScore >= result[k + 1].relevanceScore

\* Two results with different scores whose documents are stored in the
\* opposite order.
C13_Witness ==
    /\ SearchReturned /\ NonBlankQuery
    /\ Len(procs[1].result) >= 2
    /\ procs[1].result[1].relevanceScore > procs[1].result[2].relevanceScore
    /\ \E i, j \in 1..Len(file) :
           /\ i < j
           /\ file[i] = procs[1].result[2].document
           /\ file[j] = procs[1].result[1].document

\* C14: for an empty or whitespace-only query the result is the first
\* min(limit, number of active documents) active documents in store order,
\* each with relevanceScore 0 and matchType 'content'.
C14_BlankQueryListsActive ==
    (SearchReturned /\ ~NonBlankQuery) =>
        LET result == procs[1].result
            active == SelectSeq(file, LAMBDA d : d.isActive)
            n == IF procs[1].limit < Len(active) THEN procs[1].limit
                 ELSE Len(active)
        IN  /\ Len(result) = n
            /\ \A k \in 1..n :
                   /\ result[k].document = active[k]
                   /\ result[k].relevanceScore = 0
                   /\ result[k].matchType = "content"

\* A whitespace-only query with more active documents than the limit and a
\* deleted record at the head of the store.
C14_Witness ==
    /\ SearchReturned /\ procs[1].query = <<" ">>
    /\ procs[1].limit = 1 /\ Len(procs[1].result) = 1
    /\ Len(file) = 3 /\ ~file[1].isActive
    /\ file[2].isActive /\ file[3].isActive

\* C15: when an active record lacks a field the scorer reads, a search with
\* a non-empty query does not raise and returns what it returns for the
\* collection without that record.
C15_MalformedRecordSkipped ==
    (/\ procs[1].op = "search" /\ procs[1].pc = "done" /\ NonBlankQuery
     /\ \E i \in 1..Len(file) : file[i].isActive /\ file[i].tags = Undefined)
    => /\ ~procs[1].raised
       /\ procs[1].result =
              SearchDocuments(SelectSeq(file, LAMBDA d : d.tags # Undefined),
                              procs[1].query, procs[1].limit)

\* The query is a single term t of length >= 2, A's title holds t once and
\* no other field of A matches, and B matches by two occurrences of t in
\* extractedText and by nothing else.
TitleOnceContentTwice(A, B) ==
    LET t == ToLowerCase(procs[1].query)
        terms == SearchTerms(procs[1].query)
        text == ToLowerCase(B.extractedText)
    IN  /\ Len(t) >= 2 /\ \A i \in 1..Len(t) : ~IsSpace(t[i])
        /\ A.isActive /\ B.isActive
        /\ Occurrences(ToLowerCase(A.title), t) = 1
        /\ CalculateMatchScore(A.description, terms) = 0
        /\ CalculateMatchScore(Join(A.tags, <<" ">>), terms) = 0
        /\ CalculateMatchScore(A.extractedText, terms) = 0
        /\ CalculateMatchScore(B.title, terms) = 0
        /\ CalculateMatchScore(B.description, terms) = 0
        /\ CalculateMatchScore(Join(B.tags, <<" ">>), terms) = 0
        /\ Occurrences(text, t) = 2
        /\ \A k \in 1..Len(terms) :
               Occurrences(text, terms[k]) = 2 * Occurrences(t, terms[k])

\* A has the strictly higher relevanceScore, and when B is returned A is
\* returned before it.
Outranks(A, B) ==
    LET terms == SearchTerms(procs[1].query)
    IN  /\ ScoreDocument(A, terms).relevanceScore
             > ScoreDocument(B, terms).relevanceScore
        /\ RankOf(B) >= 1 => (RankOf(A) >= 1 /\ RankOf(A) < RankOf(B))

\* C16 as stated: a document whose title holds the single query term once
\* outranks a document whose only match is two occurrences of the term in
\* extractedText.
C16_TitleOutranksContent ==
    SearchReturned =>
        \A i, j \in 1..Len(file) :
            TitleOnceContentTwice(file[i], file[j]) => Outranks(file[i], file[j])

\* C16 amended: the same, for a term that has a CJK character, or has at
\* least 3 characters, or stands in the title as a word of its own.
C16_WholeWordTitleOutranksContent ==
    SearchReturned =>
        \A i, j \in 1..Len(file) :
            (/\ TitleOnceContentTwice(file[i], file[j])
             /\ \/ HasCJK(procs[1].query)
                \/ Len(procs[1].query) >= 3
                \/ ExactMatches(ToLowerCase(file[i].title),
                                ToLowerCase(procs[1].query)) = 1)
            => Outranks(file[i], file[j])

\* Both documents are returned, the title match first: once for a Latin
\* term of two letters standing as a word in the title.
C16_Witness ==
    /\ SearchReturned /\ procs[1].query = <<"h", "r">>
    /\ \E i, j \in 1..Len(file) :
           /\ i > j
           /\ TitleOnceContentTwice(file[i], file[j])
           /\ RankOf(file[i]) = 1 /\ RankOf(file[j]) = 2

\* C17: for a non-empty query the relevanceScore of a result is
\* 10 x titleScore + 8 x tagsScore + 5 x descriptionScore + 2 x contentScore,
\* and (limit not truncating) a record is in the result if and only if it
\* is active and that sum is greater than 0.
C17_ScoreIsWeightedSum ==
    (SearchReturned /\ NonBlankQuery /\ procs[1].limit >= Len(file)) =>
        \A i \in 1..Len(file) :
            LET d == file[i]
                terms == SearchTerms(procs[1].query)
                sum == 10 * CalculateMatchScore(d.title, terms)
                         + 8 * CalculateMatchScore(Join(d.tags, <<" ">>), terms)
                         + 5 * CalculateMatchScore(d.description, terms)
                         + 2 * CalculateMatchScore(d.extractedText, terms)
            IN  /\ RankOf(d) >= 1 <=> (d.isActive /\ sum > 0)
                /\ RankOf(d) >= 1 =>
                       procs[1].result[RankOf(d)].relevanceScore = sum

\* A record matching in description, tags and content is returned, and an
\* active record that matches nowhere is left out.
C17_Witness ==
    /\ SearchReturned /\ procs[1].query = ReportWord /\ procs[1].limit = 5
    /\ \E i, j \in 1..Len(file) :
           /\ file[i].id = 5 /\ RankOf(file[i]) >= 1
           /\ file[j].id = 3 /\ RankOf(file[j]) = 0

\* C18: when the title does not match and both the tags and the
\* description match, the result has matchType 'tags' and matchedText equal
\* to the joined tag string.
C18_TagsBeforeDescription ==
    (SearchReturned /\ NonBlankQuery) =>
        \A k \in 1..Len(procs[1].result) :
            LET r == procs[1].result[k]
                terms == SearchTerms(procs[1].query)
                tagsText == Join(r.document.tags, <<" ">>)
            IN  (/\ CalculateMatchScore(r.document.title, terms) = 0
                 /\ CalculateMatchScore(tagsText, terms) > 0
                 /\ CalculateMatchScore(r.document.description, terms) > 0)
                => (r.matchType = "tags" /\ r.matchedText = tagsText)

\* C19: every result of a non-empty query carries a matchedText of at most
\* 200 characters plus the 3-character ellipsis.
C19_MatchedTextBounded ==
    (SearchReturned /\ NonBlankQuery) =>
        \A k \in 1..Len(procs[1].result) :
            Len(procs[1].result[k].matchedText) <= SnippetMaxLength + 3

(***************************************************************************)
(* Properties of the chat POST handlers (checked under SpecPost).          *)
(***************************************************************************)
\* The request body parsed and its message is missing or ''.
MessageMissingOrEmpty ==
    gen.kind = "post" /\ gen.http.body \in {Undefined, <<>>}

NoSearchCompletionOrHistory ==
    /\ gen.http.searches = 0
    /\ gen.http.completions = 0
    /\ gen.http.historyWrites = 0

\* C20 as stated: a chat POST whose message is missing or empty is answered
\* with status 400 and error 'Message is required', and it starts no
\* document search, no completion-service call and no chat-history write.
C20_EmptyMessageIs400 ==
    MessageMissingOrEmpty =>
        /\ NoSearchCompletionOrHistory
        /\ gen.pc = "done" =>
               (gen.http.status = 400 /\ gen.http.error = "Message is required")

\* C20 amended: such a request starts no document search, no
\* completion-service call and no chat-history write; it is answered 400
\* 'Message is required' when it passes the session test (the natural
\* route has none; the OpenAI route passes with a session or in
\* development), and 401 'Unauthorized' otherwise.
C20_EmptyMessageRejected ==
    MessageMissingOrEmpty =>
        /\ NoSearchCompletionOrHistory
        /\ gen.pc = "done" =>
               IF \/ gen.http.route = "natural"
                  \/ gen.http.session \/ gen.http.development
               THEN /\ gen.http.status = 400
                    /\ gen.http.error = "Message is required"
               ELSE /\ gen.http.status = 401
                    /\ gen.http.error = "Unauthorized"

\* An empty message was answered 400 on the OpenAI route.
C20_Witness ==
    /\ gen.kind = "post" /\ gen.pc = "done"
    /\ gen.http.route = "openai" /\ gen.http.body = <<>>
    /\ gen.http.status = 400

(***************************************************************************)
(* Properties of getDocuments (checked under SpecList).                     *)
(***************************************************************************)

Listed(p) ==
    procs[p].op = "list" /\ procs[p].pc = "done" /\ ~procs[p].raised

\* C21: for every limit >= 0 and offset >= 0, the page getDocuments returns
\* holds only active documents and at most limit of them, total is the
\* number of active documents that pass the filters (so it is at least the
\* page length), and hasMore is true exactly when offset + limit < total.
C21_PageTotalAndHasMore ==
    \A p \in Procs :
        Listed(p) =>
            LET me == procs[p]
                page == me.result[1].documents
                passing == { i \in 1..Len(file) :
                               /\ file[i].isActive
                               /\ FilterOutcome(file[i], me.query, me.tags)
                                      = "keep" }
            IN  /\ \A i \in 1..Len(page) : page[i].isActive
                /\ \A i \in 1..Len(page) :
                       \E j \in passing : file[j] = page[i]
                /\ Len(page) <= me.limit
                /\ me.result[1].total = Cardinality(passing)
                /\ me.result[1].total >= Len(page)
                /\ me.result[1].hasMore <=>
                       (me.offset + me.limit < Cardinality(passing))

\* A second page of one record was returned from a collection that also
\* holds a record outside the listing, and the page ends at the last record.
C21_Witness ==
    \E p \in Procs :
        /\ Listed(p)
        /\ procs[p].offset = 1 /\ procs[p].limit = 1
        /\ Len(procs[p].result[1].documents) = 1
        /\ procs[p].result[1].total = 2
        /\ Len(file) = 3

(***************************************************************************)
(* Properties of the memory updates of the generation calls (SpecChat).    *)
(***************************************************************************)

\* C22: when the backend answered and the call ran to its end (it was not
\* cancelled), generateAdvancedChatResponse and generateStreamingResponse
\* have appended exactly one user turn with the message, immediately
\* followed by exactly one assistant turn whose content is the text returned
\* (sync) or the last frame delivered (streaming), and the conversation
\* context of the prompt was read before these turns were appended.
C22_SuccessRecordsDelivered ==
    (/\ gen.kind \in {"advanced", "streaming"}
     /\ gen.pc = "done" /\ gen.returned = 1) =>
        /\ OneExchange(NewTurns)
        /\ NewTurns[2].content = Delivered
        /\ lastContext =
               GetContext(SubSeq(added, 1, gen.addedBefore), maxTokens)

\* C23: once the consumer has stopped iterating generateStreamingResponse
\* after k frames, the generator yields no further frame and changes nothing
\* in the conversation memory, at the cancellation and in every later step
\* (until another call is started).
C23_NothingAfterCancel ==
    [][ (\/ gen.kind = "streaming" /\ gen.pc = "cancelled"
         \/ gen'.kind = "streaming" /\ gen'.pc = "cancelled") =>
            /\ history' = history
            /\ added' = added
            /\ clock' = clock
            /\ \/ gen'.frames = gen.frames /\ gen'.out = gen.out
               \/ gen'.pc \in {"awaitBackend", "awaitSearch"} ]_vars

\* The consumer stopped after the first frame while pieces of the answer
\* were still to come; no turn was recorded.
C23_Witness ==
    /\ gen.kind = "streaming" /\ gen.pc = "cancelled"
    /\ Len(gen.frames) = 1
    /\ gen.chunks # <<>>
    /\ NewTurns = <<>>

\* The frames a successful answer with the given pieces is streamed as.
RECURSIVE CumulativeFrames(_, _)
CumulativeFrames(chunks, acc) ==
    LET rest == SkipBlank(chunks)
    IN  IF rest = <<>> THEN <<>>
        ELSE <<acc \o Head(rest)>>
                 \o CumulativeFrames(Tail(rest), acc \o Head(rest))

\* C24: when the backend fails, generateStreamingResponse consumed to its
\* end has delivered the fallback text as the frames a successful answer of
\* the same text would be delivered as (split at sentence-terminal
\* punctuation, cumulative), and has recorded the user turn and the
\* assistant turn holding the fallback text.
C24_FallbackStreamedAndRecordedAsSuccess ==
    (gen.kind = "streaming" /\ gen.threw = 1 /\ gen.pc = "done") =>
        /\ gen.frames =
               CumulativeFrames(SplitKeepingEnds(Trim(gen.result)), <<>>)
        /\ OneExchange(NewTurns)
        /\ NewTurns[2].content = gen.result

\* C25: a call whose completion-service calls all returned, among them
\* the ones returning empty text or text that post-processing reduces to
\* fewer than 20 characters, delivers a non-empty answer:
\* generateAdvancedChatResponse and generateNaturalChatResponse return
\* non-empty text with or without document context, and
\* generateStreamingResponse yields at least one non-empty frame.
C25_DegenerateOutputReplaced ==
    (gen.pc = "done" /\ gen.threw = 0 /\ gen.returned >= 1) =>
        /\ gen.kind \in {"advanced", "natural"} => Trim(gen.result) # <<>>
        /\ gen.kind = "streaming" =>
               \E i \in 1..Len(gen.frames) : Trim(gen.frames[i]) # <<>>

(***************************************************************************)
(* Properties of getContext and getRecentDocumentContext (SpecMemory).     *)
(***************************************************************************)

\* The "Human: " / "Assistant: " lines of the given turns, oldest first.
RECURSIVE Transcript(_)
Transcript(turns) ==
    IF turns = <<>> THEN <<>>
    ELSE TurnText(Head(turns)) \o Transcript(Tail(turns))

\* C26: getContext returns the lines of a contiguous suffix of history in
\* chronological order: the j newest turns, where the turn before them (if
\* there is one) is the first, walking backwards, whose line would push the
\* running estimate over maxTokens; no older turn is included while a newer
\* one is omitted.
C26_ContextIsNewestSuffix ==
    lastOp = "getContext" =>
        LET n == Len(history)
        IN  \E j \in 0..n :
                /\ lastContext = Transcript(SubSeq(history, n - j + 1, n))
                /\ Len(lastContext) <= 4 * maxTokens
                /\ j < n =>
                       Len(lastContext) + Len(TurnText(history[n - j]))
                           > 4 * maxTokens

\* getContext returned the two newest of three stored turns: the third
\* newest did not fit.
C26_Witness ==
    /\ lastOp = "getContext"
    /\ Len(history) = 3
    /\ lastContext = Transcript(SubSeq(history, 2, 3))

\* C27 (SpecRecent): getRecentDocumentContext returns the documentContext
\* of the most recent turn among the last 3 that has a non-empty one, and
\* '' when none of the last 3 turns has one, also when history is empty or
\* only a turn older than the last 3 has one.
C27_RecentDocumentContext ==
    lastOp = "getRecentDocumentContext" =>
        LET n == Len(history)
            withContext == { i \in 1..n :
                               /\ i > n - 3
                               /\ history[i].documentContext # Undefined
                               /\ history[i].documentContext # <<>> }
        IN  IF withContext = {}
            THEN lastDocContext = <<>>
            ELSE lastDocContext =
                     history[CHOOSE i \in withContext :
                                 \A j \in withContext : j <= i].documentContext

\* '' was returned although a turn older than the last 3 has a
\* documentContext.
C27_Witness ==
    /\ lastOp = "getRecentDocumentContext"
    /\ Len(history) >= 4
    /\ Truthy(history[1].documentContext)
    /\ lastDocContext = <<>>

(***************************************************************************)
(* Deletion (SpecStore: uploads, reprocessing, deletions, searches and      *)
(* listings, one request at a time).                                        *)
(***************************************************************************)

\* C28: once deleteDocument(id) has returned true, and unless the id was
\* saved again afterwards, no getDocumentById (the lookup of a reprocess
\* request), getDocuments or searchDocuments call returns a document with
\* that id, whatever saves and reprocessings of the id came before; and
\* deleteDocument on an id that was never saved returns false.
C28_DeletedStaysGone ==
    \A p \in Procs :
        (procs[p].pc = "done" /\ ~procs[p].raised) =>
            /\ procs[p].op = "search" =>
                   \A i \in 1..Len(procs[p].result) :
                       procs[p].result[i].document.id \notin deletedIds
            /\ procs[p].op = "list" =>
                   \A i \in 1..Len(procs[p].result[1].documents) :
                       procs[p].result[1].documents[i].id \notin deletedIds
            /\ (procs[p].op = "reprocess" /\ procs[p].id \in deletedIds) =>
                   procs[p].result = <<404>>
            /\ (procs[p].op = "delete" /\ procs[p].id \notin savedIds) =>
                   procs[p].result = <<FALSE>>

(***************************************************************************)
(* The model loop of generateNaturalChatResponse (SpecChat).               *)
(***************************************************************************)

StreamOpen ==
    /\ gen.kind \in {"streaming", "wordStream"}
    /\ ~gen.closed
    /\ gen.pc # "cancelled"

\* controller.close() was called after content frames followed by [DONE], or
\* after a single error frame without [DONE].
ClosedAfterDoneOrError ==
    gen.closed =>
        LET n == Len(gen.out)
        IN  /\ n >= 1
            /\ \A i \in 1..(n - 1) : gen.out[i].type = "content"
            /\ gen.out[n].type \in {"done", "error"}
            /\ gen.out[n].type = "error" => n = 1

\* Once the stream is closed or cancelled it stays so and nothing more is
\* enqueued, until another request opens its own stream.
NothingAfterEnd ==
    [][ (gen.closed \/ gen.pc = "cancelled") =>
            \/ gen'.out = gen.out /\ gen'.closed = gen.closed
                   /\ gen'.pc = gen.pc
            \/ gen'.out = <<>> /\ ~gen'.closed ]_vars

\* C30 as stated: every response stream opened by a streaming route is
\* eventually closed by the route, exactly once, after all content frames
\* followed by [DONE] or after a single error frame without [DONE], and
\* nothing is enqueued after the close.
C30_StreamEventuallyClosed ==
    /\ []ClosedAfterDoneOrError
    /\ NothingAfterEnd
    /\ StreamOpen ~> gen.closed

\* C30 amended: every response stream opened by a streaming route
\* eventually ends, exactly once: closed by the route after all content
\* frames followed by [DONE], or after a single error frame without [DONE],
\* or cancelled by the client that stopped reading; nothing is enqueued
\* after the close or the cancellation.
C30_StreamEventuallyEnds ==
    /\ []ClosedAfterDoneOrError
    /\ NothingAfterEnd
    /\ StreamOpen ~> (gen.closed \/ gen.pc = "cancelled")

\* The word-by-word stream was closed after an error frame, with no [DONE].
C30_Witness ==
    /\ gen.kind = "wordStream" /\ gen.closed
    /\ gen.out = <<ErrorFrame>>

====
